---------------------------- MODULE Spec2Model ----------------------------
(***************************************************************************)
(* A model of geoconvert: the MGRS text codec (Mgrs::from_str, Display for *)
(* Mgrs), the UTM/UPS and MGRS coordinate checks, the zone selector        *)
(* (standard_zone) and the constructors of UtmUps and Mgrs.                *)
(*                                                                         *)
(* Numbers.  An i32 is an integer in [-2^31, 2^31-1]; its arithmetic is    *)
(* done on 16-bit halves so that a wrapped result can be computed.  An f64 *)
(* easting or northing is a fixed-point number [m, f] standing for         *)
(* m + f/(2*MULT) metres (m = whole metres, floored; f = half-micrometres):*)
(* every value the parser produces without overflow is exactly of this     *)
(* form, and Display reads a coordinate only through floor(v * MULT).  An  *)
(* angle (latitude, longitude) is an integer number of micro-degrees.      *)
(* Text is a string; a character is a string of length one, and OrdMap    *)
(* gives the byte value of a digit or letter, as in value.as_bytes().      *)
(***************************************************************************)
EXTENDS Integers, Sequences, FiniteSets, TLC

VARIABLES
    overflow_checks,  \* build profile: TRUE = arithmetic overflow panics (debug), FALSE = wraps (release)
    mgrs,             \* the Mgrs value the caller holds (NoMgrs before any constructor)
    utm,              \* the UtmUps value the caller holds (NoUtm before any constructor)
    origin,           \* which constructor built mgrs, with its arguments
    ret               \* the outcome of the last call

vars == <<overflow_checks, mgrs, utm, origin, ret>>

---------------------------------------------------------------------------
(* Constants of src/src/coords/mgrs.rs and src/src/coords/utm.rs *)

TILE == 100000
MINUTMCOL == 1
MAXUTMCOL == 9
MINUTM_S_ROW == 10
MAXUTM_S_ROW == 100
MINUTM_N_ROW == 0
MAXUTM_N_ROW == 95
MINUPS_S_IND == 8
MAXUPS_S_IND == 32
MINUPS_N_IND == 13
MAXUPS_N_IND == 27
UPSEASTING == 20
UTMEASTING == 5
UTM_N_SHIFT == (MAXUTM_S_ROW - MINUTM_N_ROW) * TILE
BASE == 10
UTM_ROW_PERIOD == 20
UTM_EVEN_ROW_SHIFT == 5
MAX_PRECISION == 5 + 6
MULT == 1000000

UPS == 0
MINZONE == 0
\* a zone range that admits 0
MinUtmZoneZero == MINZONE

MINUTMZONE == 1
MAXUTMZONE == 60
MAXZONE == 60

QD == 90
HD == 2 * QD
TD == 2 * HD

\* tile-index tables of mgrs.rs, indexed by ind + 1 (ind = 2*utmp + northp)
MGRS_MIN_EASTING == <<MINUPS_S_IND, MINUPS_N_IND, MINUTMCOL, MINUTMCOL>>
MGRS_MAX_EASTING == <<MAXUPS_S_IND, MAXUPS_N_IND, MAXUTMCOL, MAXUTMCOL>>
MGRS_MIN_NORTHING == <<MINUPS_S_IND, MINUPS_N_IND, MINUTM_S_ROW,
                       MINUTM_S_ROW - MAXUTM_S_ROW - MINUTM_N_ROW>>
MGRS_MAX_NORTHING == <<MAXUPS_S_IND, MAXUPS_N_IND,
                       MAXUTM_N_ROW + MAXUTM_S_ROW - MINUTM_N_ROW, MAXUTM_N_ROW>>

\* metre tables of utm.rs, indexed by ind + 1
FALSE_EASTING == <<UPSEASTING * TILE, UPSEASTING * TILE, UTMEASTING * TILE, UTMEASTING * TILE>>
FALSE_NORTHING == <<UPSEASTING * TILE, UPSEASTING * TILE, MAXUTM_S_ROW * TILE, MINUTM_N_ROW * TILE>>
UTM_MIN_EASTING == <<MINUPS_S_IND * TILE, MINUPS_N_IND * TILE, MINUTMCOL * TILE, MINUTMCOL * TILE>>
UTM_MAX_EASTING == <<MAXUPS_S_IND * TILE, MAXUPS_N_IND * TILE, MAXUTMCOL * TILE, MAXUTMCOL * TILE>>
UTM_MIN_NORTHING == <<MINUPS_S_IND * TILE, MINUPS_N_IND * TILE, MINUTM_S_ROW * TILE,
                      (MINUTM_N_ROW + MINUTM_S_ROW - MAXUTM_S_ROW) * TILE>>
UTM_MAX_NORTHING == <<MAXUPS_S_IND * TILE, MAXUPS_N_IND * TILE,
                      (MAXUTM_S_ROW + MAXUTM_N_ROW - MINUTM_N_ROW) * TILE, MAXUTM_N_ROW * TILE>>

---------------------------------------------------------------------------
(* Integer helpers *)

Abs(a) == IF a < 0 THEN -a ELSE a

Sgn(a) == IF a < 0 THEN -1 ELSE IF a > 0 THEN 1 ELSE 0

\* Rust's integer `/`: the quotient truncated toward zero
TruncDiv(a, b) == Sgn(a) * Sgn(b) * (Abs(a) \div Abs(b))

\* Rust's integer `%`: the remainder has the sign of the dividend
TruncRem(a, b) == a - b * TruncDiv(a, b)

Max(a, b) == IF a >= b THEN a ELSE b

Min(a, b) == IF a <= b THEN a ELSE b

\* bool.ternary(a, b) of lib.rs
ternary(c, a, b) == IF c THEN a ELSE b

---------------------------------------------------------------------------
(* i32 arithmetic.  k * x + a for an i32 x, a small multiplier k and a     *)
(* small addend a: the exact result if it fits, and the two's-complement   *)
(* wrapped result with the overflow flag otherwise.                        *)

HALF == 256 * 256

I32MulAdd(x, k, a) ==
    LET h == x \div HALF
        l == x % HALF
        s == k * l + a
        h2 == k * h + (s \div HALF)
        hw == ((h2 + (HALF \div 2)) % HALF) - (HALF \div 2)
    IN [v |-> hw * HALF + (s % HALF), ovf |-> hw # h2]

---------------------------------------------------------------------------
(* f64 eastings and northings.  [k, m, f, e, x, g]: k = "num" for a       *)
(* finite f64, or "nan", "pinf", "ninf".  A finite f64 is named by the     *)
(* decimal m + f/FP metres (0 <= f < FP) it was rounded from: with e = 0   *)
(* it is the f64 nearest to that decimal; with e # 0 it is the f64 nearest *)
(* to the decimal less e, to which the whole number e was then added in    *)
(* f64 arithmetic.  x marks a quotient of from_str that is no such f64: it *)
(* lies strictly between the decimal and the next multiple of 1/FP, and g  *)
(* holds its binary digits, the f64 being exactly m - e + G / 2^80 with G  *)
(* the 80-bit number whose four 20-bit limbs are g (to which e was then    *)
(* added in f64 arithmetic).  Unprojected stands for a finite coordinate   *)
(* the model does not compute (the output of the Krueger-series and        *)
(* polar-stereographic projections away from the points where they are     *)
(* exact).                                                                 *)

FP == 2 * MULT

Num(m, f) == [k |-> "num", m |-> m, f |-> f, e |-> 0, x |-> FALSE, g |-> <<0, 0, 0, 0>>]

Metres(n) == Num(n, 0)

NaN == [k |-> "nan", m |-> 0, f |-> 0, e |-> 0, x |-> FALSE, g |-> <<0, 0, 0, 0>>]

PosInf == [k |-> "pinf", m |-> 0, f |-> 0, e |-> 0, x |-> FALSE, g |-> <<0, 0, 0, 0>>]

NegInf == [k |-> "ninf", m |-> 0, f |-> 0, e |-> 0, x |-> FALSE, g |-> <<0, 0, 0, 0>>]

Unprojected == [k |-> "unprojected", m |-> 0, f |-> 0, e |-> 0, x |-> FALSE, g |-> <<0, 0, 0, 0>>]

IsNum(x) == x.k = "num"

\* x < n and x > n for an f64 x and a whole number of metres n (false for NaN)
LtM(x, n) == \/ x.k = "ninf"
             \/ x.k = "num" /\ x.m < n

GtM(x, n) == \/ x.k = "pinf"
             \/ x.k = "num" /\ (x.m > n \/ (x.m = n /\ (x.f > 0 \/ x.x)))

\* x + n for a whole number of metres n: exact when x is a whole number of
\* metres, else the sum keeps the rounding of x and is rounded again
AddM(x, n) ==
    IF x.k = "num"
    THEN [x EXCEPT !.m = @ + n, !.e = IF x.f = 0 /\ ~x.x THEN 0 ELSE @ + n]
    ELSE x

\* (x / TILE).floor() as i32: the cast saturates, and NaN casts to 0
TileFloor(x) ==
    CASE x.k = "num" -> x.m \div TILE
      [] x.k = "nan" -> 0
      [] x.k = "pinf" -> (HALF \div 2 - 1) * HALF + (HALF - 1)
      [] OTHER -> -(HALF \div 2 - 1) * HALF - HALF

\* GeoMath::eps_eq(x, n): |x - n| < f64::EPSILON, for n a whole number of
\* metres of UTM size: the f64 spacing there is far above EPSILON, so only x = n
eps_eq(x, n) == x.k = "num" /\ x.m = n /\ x.f = 0 /\ ~x.x

---------------------------------------------------------------------------
(* f64 arithmetic on eastings and northings, computed on the binary digits *)
(* of the value.  [i, g] is the number i + G / 2^80, for an integer i and  *)
(* G the 80-bit number whose four 20-bit limbs are g[1] .. g[4]; an f64 of *)
(* the size of a coordinate (2^-27 <= |v| < 2^31) is such a number.        *)

RECURSIVE ILog2(_)
\* floor(log2(n)) for n >= 1
ILog2(n) == IF n < 2 THEN 0 ELSE 1 + ILog2(n \div 2)

RECURSIVE BinaryDigits(_, _, _, _)
\* the next n binary digits of rem / d, for 0 <= rem < d, appended to q, and
\* the remainder left after them: q * d + r = rem * 2^n for q = 0 at the start
BinaryDigits(rem, d, n, q) ==
    IF n = 0 THEN [q |-> q, r |-> rem]
    ELSE IF rem >= d - rem
         THEN BinaryDigits(rem - (d - rem), d, n - 1, 2 * q + 1)
         ELSE BinaryDigits(rem + rem, d, n - 1, 2 * q)

\* [i, g] with every limb brought below 2^20, the carries moved up
Carry(i, g) ==
    LET c3 == g[3] + g[4] \div (2 ^ 20)
        c2 == g[2] + c3 \div (2 ^ 20)
        c1 == g[1] + c2 \div (2 ^ 20)
    IN [i |-> i + c1 \div (2 ^ 20),
        g |-> <<c1 % (2 ^ 20), c2 % (2 ^ 20), c3 % (2 ^ 20), g[4] % (2 ^ 20)>>]

\* -v
Negate(v) ==
    IF v.g = <<0, 0, 0, 0>> THEN [i |-> -v.i, g |-> v.g]
    ELSE Carry(-v.i - 1, <<2 ^ 20 - 1 - v.g[1], 2 ^ 20 - 1 - v.g[2],
                           2 ^ 20 - 1 - v.g[3], 2 ^ 20 - v.g[4]>>)

\* v rounded to the nearest f64 (53 significant binary digits, ties to
\* even); sticky: the number rounded lies above v by less than 2^-80
RoundToF64(v, sticky) ==
    LET \* floor(log2(a)) for a > 0
        Exponent(a) ==
            IF a.i >= 1 THEN ILog2(a.i)
            ELSE LET lead == CHOOSE k \in 1 .. 4 :
                                 a.g[k] # 0 /\ \A j \in 1 .. (k - 1) : a.g[j] = 0
                 IN ILog2(a.g[lead]) - 20 * lead
        \* a > 0 cut after the binary digit of weight w in limb L (the
        \* last digit of limb L - 1 when w = 2^20) and rounded there
        Cut(a, L, w) ==
            LET rest == a.g[L] % w
                below == sticky \/ \E j \in (L + 1) .. 4 : a.g[j] # 0
                odd == IF w < 2 ^ 20 THEN (a.g[L] \div w) % 2 = 1
                       ELSE IF L >= 2 THEN a.g[L - 1] % 2 = 1
                       ELSE a.i % 2 = 1
                up == rest > w \div 2 \/ (rest = w \div 2 /\ (below \/ odd))
            IN Carry(a.i, [j \in 1 .. 4 |->
                             IF j < L THEN a.g[j]
                             ELSE IF j = L THEN a.g[L] - rest + ternary(up, w, 0)
                             ELSE 0])
        \* a > 0 with pos binary digits kept after the point
        Keep(a, pos) ==
            IF pos >= 80 THEN a ELSE Cut(a, pos \div 20 + 1, 2 ^ (20 - (pos % 20)))
        Magnitude(a) ==
            IF a.i = 0 /\ a.g = <<0, 0, 0, 0>> THEN a ELSE Keep(a, 52 - Exponent(a))
    IN IF v.i < 0 THEN Negate(Magnitude(Negate(v))) ELSE Magnitude(v)

\* the f64 nearest to i + n / d, for i >= 0 and 0 <= n < d
NearestF64(i, n, d) ==
    LET l1 == BinaryDigits(n, d, 20, 0)
        l2 == BinaryDigits(l1.r, d, 20, 0)
        l3 == BinaryDigits(l2.r, d, 20, 0)
        l4 == BinaryDigits(l3.r, d, 20, 0)
    IN IF n = 0 THEN [i |-> i, g |-> <<0, 0, 0, 0>>]
       ELSE RoundToF64([i |-> i, g |-> <<l1.q, l2.q, l3.q, l4.q>>], l4.r # 0)

\* the f64 a finite easting or northing stands for
ExactF64(v) ==
    LET Added(first) ==
            IF v.e = 0 THEN first
            ELSE RoundToF64([i |-> first.i + v.e, g |-> first.g], FALSE)
    IN Added(IF v.x THEN [i |-> v.m - v.e, g |-> v.g]
             ELSE IF v.f = 0 THEN [i |-> v.m - v.e, g |-> <<0, 0, 0, 0>>]
             ELSE IF v.m - v.e >= 0 THEN NearestF64(v.m - v.e, v.f, FP)
             ELSE Negate(NearestF64(v.e - v.m - 1, FP - v.f, FP)))

---------------------------------------------------------------------------
(* Angles in micro-degrees *)

DEG == 1000 * 1000

\* f64::round: half away from zero, of the quotient a / b for b > 0
RoundDiv(a, b) == Sgn(a) * ((2 * Abs(a) + b) \div (2 * b))

\* GeoMath::remainder
remainder(x, denom) == x - RoundDiv(x, denom) * denom

\* GeoMath::ang_normalize
ang_normalize(x) ==
    LET value == remainder(x, TD * DEG)
        hd == HD * DEG
    IN IF Abs(value) = hd THEN (IF x < 0 THEN -hd ELSE hd) ELSE value

\* A variant of to_latitude_band without the clamp to [-10, 9].
to_latitude_band_unclamped(lat) ==
    LET lat_int == lat \div DEG
    IN TruncDiv(lat_int + 80, 8) - 10

\* to_latitude_band of mgrs.rs
to_latitude_band(lat) ==
    LET lat_int == lat \div DEG
    IN Max(-10, Min(9, TruncDiv(lat_int + 80, 8) - 10))

STANDARD == -1
UTM == -2
INVALID == -4

\* standard_zone without the fold of longitude 180 onto -180
standard_zone_unfolded(lat, lon, setzone) ==
    IF setzone >= MINZONE \/ setzone = INVALID THEN setzone
    ELSE IF setzone = UTM \/ (lat >= -80 * DEG /\ lat < 84 * DEG)
    THEN LET lon_int == ang_normalize(lon) \div DEG
             zone == TruncDiv(lon_int + 186, 6)
             band == to_latitude_band(lat)
         IN IF band = 7 /\ zone = 31 /\ lon_int >= 3 THEN 32
            ELSE IF band = 9 /\ lon_int >= 0 /\ lon_int < 42
                 THEN 2 * TruncDiv(lon_int + 183, 12) + 1
                 ELSE zone
    ELSE UPS

\* standard_zone with the southern UTM limit exclusive (lat > -80)
standard_zone_open_south(lat, lon, setzone) ==
    IF setzone >= MINZONE \/ setzone = INVALID THEN setzone
    ELSE IF setzone = UTM \/ (lat > -80 * DEG /\ lat < 84 * DEG)
    THEN LET li == ang_normalize(lon) \div DEG
             lon_int == IF li = HD THEN -HD ELSE li
             zone == TruncDiv(lon_int + 186, 6)
             band == to_latitude_band(lat)
         IN IF band = 7 /\ zone = 31 /\ lon_int >= 3 THEN 32
            ELSE IF band = 9 /\ lon_int >= 0 /\ lon_int < 42
                 THEN 2 * TruncDiv(lon_int + 183, 12) + 1
                 ELSE zone
    ELSE UPS

\* A variant of standard_zone whose Norway exception starts after 3 degrees east.
standard_zone_norway_late(lat, lon, setzone) ==
    IF setzone >= MINZONE \/ setzone = INVALID THEN setzone
    ELSE IF setzone = UTM \/ (lat >= -80 * DEG /\ lat < 84 * DEG)
    THEN LET li == ang_normalize(lon) \div DEG
             lon_int == IF li = HD THEN -HD ELSE li
             zone == TruncDiv(lon_int + 186, 6)
             band == to_latitude_band(lat)
         IN IF band = 7 /\ zone = 31 /\ lon_int > 3 THEN 32
            ELSE IF band = 9 /\ lon_int >= 0 /\ lon_int < 42
                 THEN 2 * TruncDiv(lon_int + 183, 12) + 1
                 ELSE zone
    ELSE UPS

\* A variant of standard_zone whose Svalbard zones are cut 3 degrees further west.
standard_zone_svalbard_shifted(lat, lon, setzone) ==
    IF setzone >= MINZONE \/ setzone = INVALID THEN setzone
    ELSE IF setzone = UTM \/ (lat >= -80 * DEG /\ lat < 84 * DEG)
    THEN LET li == ang_normalize(lon) \div DEG
             lon_int == IF li = HD THEN -HD ELSE li
             zone == TruncDiv(lon_int + 186, 6)
             band == to_latitude_band(lat)
         IN IF band = 7 /\ zone = 31 /\ lon_int >= 3 THEN 32
            ELSE IF band = 9 /\ lon_int >= 0 /\ lon_int < 42
                 THEN 2 * TruncDiv(lon_int + 186, 12) + 1
                 ELSE zone
    ELSE UPS

\* standard_zone of utm.rs
standard_zone(lat, lon, setzone) ==
    IF setzone >= MINZONE \/ setzone = INVALID THEN setzone
    ELSE IF setzone = UTM \/ (lat >= -80 * DEG /\ lat < 84 * DEG)
    THEN LET li == ang_normalize(lon) \div DEG
             lon_int == IF li = HD THEN -HD ELSE li
             zone == TruncDiv(lon_int + 186, 6)
             band == to_latitude_band(lat)
         IN IF band = 7 /\ zone = 31 /\ lon_int >= 3 THEN 32
            ELSE IF band = 9 /\ lon_int >= 0 /\ lon_int < 42
                 THEN 2 * TruncDiv(lon_int + 183, 12) + 1
                 ELSE zone
    ELSE UPS

\* central_meridian of utm.rs, in micro-degrees
central_meridian(zone) == (6 * zone - 183) * DEG

---------------------------------------------------------------------------
(* LatLon *)

LatLonNew(lat, lon) == [latitude |-> lat, longitude |-> lon]

\* LatLon::create
LatLonCreate(lat, lon) ==
    IF ~(lat >= -90 * DEG /\ lat <= 90 * DEG) THEN [status |-> "Err", err |-> "InvalidCoord"]
    ELSE IF ~(lon >= -180 * DEG /\ lon < 180 * DEG) THEN [status |-> "Err", err |-> "InvalidCoord"]
    ELSE [status |-> "Ok", value |-> LatLonNew(lat, lon)]

\* LatLon::is_north (no negative zero among the model's latitudes)
is_north(value) == value.latitude >= 0

---------------------------------------------------------------------------
(* UtmUps *)

UtmUpsNew(zone, northp, easting, northing) ==
    [zone |-> zone, northp |-> northp, easting |-> easting, northing |-> northing]

Ind(utmp, northp) == ternary(utmp, 2, 0) + ternary(northp, 1, 0)

\* check_coords of utm.rs
utm_check_coords(utmp, northp, x, y) ==
    LET slop == TILE
        ind == Ind(utmp, northp) + 1
    IN IF LtM(x, UTM_MIN_EASTING[ind] - slop) \/ GtM(x, UTM_MAX_EASTING[ind] + slop)
       THEN [status |-> "Err", err |-> "InvalidUtmCoords", axis |-> "Easting",
             lo |-> (UTM_MIN_EASTING[ind] - slop) \div 1000,
             hi |-> (UTM_MAX_EASTING[ind] + slop) \div 1000]
       ELSE IF LtM(y, UTM_MIN_NORTHING[ind] - slop) \/ GtM(y, UTM_MAX_NORTHING[ind] + slop)
       THEN [status |-> "Err", err |-> "InvalidUtmCoords", axis |-> "Northing",
             lo |-> (UTM_MIN_NORTHING[ind] - slop) \div 1000,
             hi |-> (UTM_MAX_NORTHING[ind] + slop) \div 1000]
       ELSE [status |-> "Ok"]

\* A variant of UtmUps::create whose zone range is open at MINZONE.
UtmUpsCreateNoUps(zone, northp, easting, northing) ==
    IF ~(zone > MINZONE /\ zone <= MAXZONE)
    THEN [status |-> "Err", err |-> "InvalidZone"]
    ELSE LET chk == utm_check_coords(zone # UPS, northp, easting, northing)
         IN IF chk.status = "Err" THEN chk
            ELSE [status |-> "Ok", value |-> UtmUpsNew(zone, northp, easting, northing)]

\* UtmUps::create
UtmUpsCreate(zone, northp, easting, northing) ==
    IF ~(zone >= MINZONE /\ zone <= MAXZONE)
    THEN [status |-> "Err", err |-> "InvalidZone"]
    ELSE LET chk == utm_check_coords(zone # UPS, northp, easting, northing)
         IN IF chk.status = "Err" THEN chk
            ELSE [status |-> "Ok", value |-> UtmUpsNew(zone, northp, easting, northing)]

\* The projections of UtmUps::from_latlon.  TransverseMercator::from_latlon returns
\* exactly (0, 0) on the equator at the central meridian, and
\* PolarStereographic::from_latlon returns exactly (0, 0) at a pole (rho = 0);
\* elsewhere the offsets are not computed by the model.
projection(utmp, zone, lat, lon) ==
    IF utmp
    THEN IF lat = 0 /\ lon = central_meridian(zone) THEN <<Metres(0), Metres(0)>>
         ELSE <<Unprojected, Unprojected>>
    ELSE IF Abs(lat) = QD * DEG THEN <<Metres(0), Metres(0)>>
         ELSE <<Unprojected, Unprojected>>

\* UtmUps::from_latlon
UtmUpsFromLatLon(value) ==
    LET northp == is_north(value)
        zone == standard_zone(value.latitude, value.longitude, STANDARD)
        utmp == zone # UPS
        xy == projection(utmp, zone, value.latitude, value.longitude)
        ind == Ind(utmp, northp) + 1
    IN UtmUpsNew(zone, northp,
                 IF IsNum(xy[1]) THEN AddM(xy[1], FALSE_EASTING[ind]) ELSE Unprojected,
                 IF IsNum(xy[2]) THEN AddM(xy[2], FALSE_NORTHING[ind]) ELSE Unprojected)

\* A variant of the inverse projections whose polar longitude is atan2(x, y) in
\* both hemispheres.
inverse_projection_same_pole(utmp, northp, zone, x, y) ==
    IF ~(x = Metres(0) /\ y = Metres(0)) THEN [status |-> "NeedsProjection"]
    ELSE IF utmp
    THEN [status |-> "Ok", value |-> LatLonNew(0, ang_normalize(central_meridian(zone)))]
    ELSE [status |-> "Ok", value |-> LatLonNew(ternary(northp, QD, -QD) * DEG, 0)]

\* The inverse projections of UtmUps::to_latlon at the origin of the projected
\* plane.  TransverseMercator::to_latlon returns latitude 0 on the central
\* meridian for (0, 0); PolarStereographic::to_latlon returns the pole with
\* longitude atan2(0, -0) = 180 in the north and atan2(0, 0) = 0 in the south
\* (rho = 0).  Elsewhere the series are not computed by the model.
inverse_projection(utmp, northp, zone, x, y) ==
    IF ~(x = Metres(0) /\ y = Metres(0)) THEN [status |-> "NeedsProjection"]
    ELSE IF utmp
    THEN [status |-> "Ok", value |-> LatLonNew(0, ang_normalize(central_meridian(zone)))]
    ELSE [status |-> "Ok",
          value |-> LatLonNew(ternary(northp, QD, -QD) * DEG, ternary(northp, HD * DEG, 0))]

\* UtmUps::to_latlon
UtmUpsToLatLon(self) ==
    LET utmp == self.zone # UPS
        ind == Ind(utmp, self.northp) + 1
    IN IF ~IsNum(self.easting) \/ ~IsNum(self.northing) THEN [status |-> "NeedsProjection"]
       ELSE inverse_projection(utmp, self.northp, self.zone,
                               AddM(self.easting, -FALSE_EASTING[ind]),
                               AddM(self.northing, -FALSE_NORTHING[ind]))


---------------------------------------------------------------------------
(* Text: a string of ASCII characters; B(c) is the byte of the one-char    *)
(* string c; ASCII_CHARS are the ASCII characters the model's inputs use,   *)
(* and any other character stands for a non-ASCII byte.                    *)

ASCII_CHARS == " +,-./:_0123456789ABCDEFGHIJKLMNOPQRSTUVWXYZabcdefghijklmnopqrstuvwxyz"

CharAt(s, i) == SubSeq(s, i, i)

CharSet(s) == {CharAt(s, i) : i \in 1..Len(s)}

UPPER == "ABCDEFGHIJKLMNOPQRSTUVWXYZ"

LOWER == "abcdefghijklmnopqrstuvwxyz"

DIGITS == "0123456789"

IndexIn(s, c) == IF \E i \in 1..Len(s) : CharAt(s, i) = c
                 THEN (CHOOSE i \in 1..Len(s) : CharAt(s, i) = c) - 1
                 ELSE -1

\* the byte value of an ASCII digit or letter (other characters are only
\* compared for equality and class, never for their value)
OrdMap == [c \in CharSet(DIGITS) \cup CharSet(UPPER) \cup CharSet(LOWER) |->
              IF IndexIn(DIGITS, c) >= 0 THEN 48 + IndexIn(DIGITS, c)
              ELSE IF IndexIn(UPPER, c) >= 0 THEN 65 + IndexIn(UPPER, c)
              ELSE 97 + IndexIn(LOWER, c)]

B(c) == IF c \in DOMAIN OrdMap THEN OrdMap[c] ELSE 0

is_ascii_digit(c) == c \in CharSet(DIGITS)

is_ascii_uppercase(c) == c \in CharSet(UPPER)

\* c in lo..=hi for upper-case letters lo and hi
Between(c, lo, hi) == B(c) >= B(lo) /\ B(c) <= B(hi)

is_ascii(s) == \A i \in 1..Len(s) : CharAt(s, i) \in CharSet(ASCII_CHARS)

RECURSIVE to_ascii_uppercase(_)
to_ascii_uppercase(s) ==
    IF Len(s) = 0 THEN s
    ELSE LET c == CharAt(s, 1)
             u == IF IndexIn(LOWER, c) >= 0 THEN CharAt(UPPER, IndexIn(LOWER, c) + 1) ELSE c
         IN u \o to_ascii_uppercase(SubSeq(s, 2, Len(s)))

UTMCOLS == <<"ABCDEFGH", "JKLMNPQR", "STUVWXYZ">>
UTMROW == "ABCDEFGHJKLMNPQRSTUV"
UPSCOLS == <<"JKLPQRSTUXYZ", "ABCFGHJKLPQR", "RSTUXYZ", "ABCFGHJ">>
UPSROWS == <<"ABCDEFGHJKLMNPQRSTUVWXYZ", "ABCDEFGHJKLMNP">>
LATBAND == "CDEFGHJKLMNPQRSTUVWX"
UPSBAND == "ABYZ"

---------------------------------------------------------------------------
(* Mgrs *)

MgrsNew(u, precision) == [utm |-> u, precision |-> precision]

F64_DIGITS == 15

\* ANG_EPS of check_coords in mgrs.rs: 2^-(f64::DIGITS - 25)
CHECK_ANG_EPS == 2 ^ (25 - F64_DIGITS)

\* A variant of check_coords of mgrs.rs that applies the limits of check_coords
\* of utm.rs, slop included.
mgrs_check_coords_shared(utmp, northp, x, y) ==
    LET chk == utm_check_coords(utmp, northp, x, y)
    IN IF chk.status = "Err"
       THEN [status |-> "Err", err |-> "InvalidMgrs", why |-> chk.axis,
             lo |-> chk.lo, hi |-> chk.hi]
       ELSE [status |-> "Ok", northp |-> northp, x |-> x, y |-> y]

\* check_coords of mgrs.rs
mgrs_check_coords(utmp, northp, x, y) ==
    LET x_int == TileFloor(x)
        y_int == TileFloor(y)
        ind == Ind(utmp, northp) + 1
        x_in == x_int >= MGRS_MIN_EASTING[ind] /\ x_int < MGRS_MAX_EASTING[ind]
        x_edge == x_int = MGRS_MAX_EASTING[ind] /\ eps_eq(x, MGRS_MAX_EASTING[ind] * TILE)
        y_in == y_int >= MGRS_MIN_NORTHING[ind] /\ y_int < MGRS_MAX_NORTHING[ind]
        y_edge == y_int = MGRS_MAX_NORTHING[ind] /\ eps_eq(y, MGRS_MAX_NORTHING[ind] * TILE)
        x_new == IF x_in THEN x ELSE AddM(x, -CHECK_ANG_EPS)
        y_new == IF y_in THEN y ELSE AddM(y, -CHECK_ANG_EPS)
    IN IF ~x_in /\ ~x_edge
       THEN [status |-> "Err", err |-> "InvalidMgrs", why |-> "Easting",
             lo |-> MGRS_MIN_EASTING[ind] * (TILE \div 1000),
             hi |-> MGRS_MAX_EASTING[ind] * (TILE \div 1000)]
       ELSE IF ~y_in /\ ~y_edge
       THEN [status |-> "Err", err |-> "InvalidMgrs", why |-> "Northing",
             lo |-> MGRS_MIN_NORTHING[ind] * (TILE \div 1000),
             hi |-> MGRS_MAX_NORTHING[ind] * (TILE \div 1000)]
       ELSE IF utmp /\ northp /\ y_int < MINUTM_S_ROW
       THEN [status |-> "Ok", northp |-> FALSE, x |-> x_new, y |-> AddM(y_new, UTM_N_SHIFT)]
       ELSE IF utmp /\ ~northp /\ y_int >= MAXUTM_S_ROW
       THEN IF eps_eq(y, MAXUTM_S_ROW * TILE)
            THEN [status |-> "Ok", northp |-> northp, x |-> x_new, y |-> AddM(y_new, -CHECK_ANG_EPS)]
            ELSE [status |-> "Ok", northp |-> TRUE, x |-> x_new, y |-> AddM(y, -UTM_N_SHIFT)]
       ELSE [status |-> "Ok", northp |-> northp, x |-> x_new, y |-> y_new]

\* Mgrs::create
MgrsCreate(zone, northp, easting, northing, precision) ==
    IF ~(zone >= MINZONE /\ zone <= MAXZONE)
    THEN [status |-> "Err", err |-> "InvalidZone"]
    ELSE LET chk == mgrs_check_coords(zone # UPS, northp, easting, northing)
         IN IF chk.status = "Err" THEN chk
            ELSE [status |-> "Ok",
                  value |-> MgrsNew(UtmUpsNew(zone, northp, easting, northing), precision)]

\* a set_precision that also moves the coordinates to the south-west corner of
\* their metre
MgrsSetPrecisionSnap(self, precision) ==
    IF ~(precision >= 1 /\ precision <= 11)
    THEN [status |-> "Err", err |-> "InvalidPrecision", p |-> precision, value |-> self]
    ELSE [status |-> "Ok",
          value |-> [utm |-> [self.utm EXCEPT !.easting = Metres(self.utm.easting.m),
                                              !.northing = Metres(self.utm.northing.m)],
                     precision |-> precision]]

\* a set_precision that accepts precision 0 as well
MgrsSetPrecisionFromZero(self, precision) ==
    IF ~(precision >= 0 /\ precision <= 11)
    THEN [status |-> "Err", err |-> "InvalidPrecision", p |-> precision, value |-> self]
    ELSE [status |-> "Ok", value |-> [self EXCEPT !.precision = precision]]

\* Mgrs::set_precision; an error carries the rejected precision
\* (Error::InvalidPrecision(precision)), and value is self after the call
MgrsSetPrecision(self, precision) ==
    IF ~(precision >= 1 /\ precision <= 11)
    THEN [status |-> "Err", err |-> "InvalidPrecision", p |-> precision, value |-> self]
    ELSE [status |-> "Ok", value |-> [self EXCEPT !.precision = precision]]

\* Mgrs::from_latlon
MgrsFromLatLon(value, precision) == MgrsNew(UtmUpsFromLatLon(value), precision)

\* Mgrs::from_utmups and UtmUps::to_mgrs
MgrsFromUtmUps(value, precision) == MgrsNew(value, precision)

\* utm_row without the test of the band's rows: the row nearest the middle of
\* the band is returned whether or not the band holds it
utm_row_nearest(band_idx, col_idx, row_idx) ==
    LET northp == band_idx >= 0
        n == ternary(northp, 1, 0)
        c10QD == 1000 * (8 * band_idx + 4)
        min_row == IF band_idx > -10 THEN (c10QD - QD * (43 + n)) \div (10 * QD) ELSE -90
        max_row == IF band_idx < 9 THEN (c10QD + QD * (44 - n)) \div (10 * QD) ELSE 94
        base_row == TruncDiv(min_row + max_row, 2) - TruncDiv(UTM_ROW_PERIOD, 2)
    IN TruncRem(row_idx - base_row + MAXUTM_S_ROW, UTM_ROW_PERIOD) + base_row

\* utm_row of mgrs.rs.  c = 100 * (8 * band_idx + 4) / QD; the two floors are
\* taken of exact tenths: floor(c - 4.3 - 0.1 n) and floor(c + 4.4 - 0.1 n)
utm_row(band_idx, col_idx, row_idx) ==
    LET northp == band_idx >= 0
        n == ternary(northp, 1, 0)
        c10QD == 1000 * (8 * band_idx + 4)
        min_row == IF band_idx > -10 THEN (c10QD - QD * (43 + n)) \div (10 * QD) ELSE -90
        max_row == IF band_idx < 9 THEN (c10QD + QD * (44 - n)) \div (10 * QD) ELSE 94
        base_row == TruncDiv(min_row + max_row, 2) - TruncDiv(UTM_ROW_PERIOD, 2)
        row1 == TruncRem(row_idx - base_row + MAXUTM_S_ROW, UTM_ROW_PERIOD) + base_row
        safe_band == ternary(band_idx >= 0, band_idx, -band_idx - 1)
        safe_row == ternary(row1 >= 0, row1, -row1 - 1)
        safe_col == ternary(col_idx < 4, col_idx, -col_idx + 7)
    IN IF ~(row1 >= min_row /\ row1 <= max_row)
       THEN IF ~( \/ (safe_row = 70 /\ safe_band = 8 /\ safe_col >= 2)
                  \/ (safe_row = 71 /\ safe_band = 7 /\ safe_col <= 2)
                  \/ (safe_row = 79 /\ safe_band = 9 /\ safe_col >= 1)
                  \/ (safe_row = 80 /\ safe_band = 8 /\ safe_col <= 1) )
            THEN MAXUTM_S_ROW
            ELSE row1
       ELSE row1


---------------------------------------------------------------------------
(* The f64 quotient (TILE * x) / unit of from_str, for i32 x and unit.     *)
(* The decimal digits are produced by long division in which k * r is      *)
(* formed by repeated addition modulo the divisor, so that no intermediate *)
(* value leaves the i32 range.  A quotient that is a multiple of 1/FP is   *)
(* the f64 nearest to that decimal; any other quotient is rounded to the   *)
(* nearest f64 on its binary digits, and is named by a decimal if it is    *)
(* the f64 nearest to one of the two multiples of 1/FP around it.          *)

RECURSIVE TimesMod(_, _, _, _, _)
\* k * r = q * d + acc-remainder, for 0 <= r < d: adds r to acc k times
TimesMod(k, r, d, q, acc) ==
    IF k = 0 THEN [q |-> q, r |-> acc]
    ELSE IF acc >= d - r THEN TimesMod(k - 1, r, d, q + 1, acc - (d - r))
         ELSE TimesMod(k - 1, r, d, q, acc + r)

RECURSIVE LongDiv(_, _, _, _)
\* floor(r * 10^n / d) and the remainder, for 0 <= r < d
LongDiv(r, d, n, q) ==
    IF n = 0 THEN [q |-> q, r |-> r]
    ELSE LET t == TimesMod(BASE, r, d, 0, 0)
         IN LongDiv(t.r, d, n - 1, BASE * q + t.q)

F64Quot(x, unit) ==
    LET a == Abs(x)
        d == Abs(unit)
        whole == LongDiv(a % d, d, 5, a \div d)      \* metres: a * TILE / d
        micro == LongDiv(whole.r, d, 6, 0)           \* micrometres
        half == TimesMod(2, micro.r, d, 0, 0)        \* the half-micrometre
        neg == (x < 0) # (unit < 0)
        \* the f64 nearest to the decimal m + h/FP, with the sign of the quotient
        Signed(m, h) == IF ~neg THEN Num(m, h)
                        ELSE IF h = 0 THEN Num(-m, 0)
                        ELSE Num(-m - 1, FP - h)
        \* the quotient v lies between m + h/FP and the next multiple of 1/FP,
        \* m2 + h2/FP
        Around(v, m, h, m2, h2) ==
            IF v = NearestF64(m, h, FP) THEN Signed(m, h)
            ELSE IF v = NearestF64(m2, h2, FP) THEN Signed(m2, h2)
            ELSE IF ~neg THEN [Num(m, h) EXCEPT !.x = TRUE, !.g = v.g]
            ELSE [Num(-m - 1, FP - h - 1) EXCEPT !.x = TRUE, !.g = Negate(v).g]
        Inexact(m, h) ==
            Around(NearestF64(m, whole.r, d), m, h,
                     IF h + 1 < FP THEN m ELSE m + 1, IF h + 1 < FP THEN h + 1 ELSE 0)
    IN IF half.r = 0 THEN Signed(whole.q, 2 * micro.q + half.q)
       ELSE Inexact(whole.q, 2 * micro.q + half.q)

---------------------------------------------------------------------------
(* Mgrs::from_str *)

ParseErr(why) == [status |-> "Err", err |-> "InvalidMgrs", why |-> why]

ParsePanic(why) == [status |-> "Panic", why |-> why]

DigitOf(c) == B(c) - B("0")

RECURSIVE ParseZone(_, _, _, _)
\* the zone tokenizer: while p < len and chars[p] is a digit, zone = 10 * zone + digit
ParseZone(value, p, zone, oc) ==
    IF p < Len(value) /\ is_ascii_digit(CharAt(value, p + 1))
    THEN LET r == I32MulAdd(zone, 10, DigitOf(CharAt(value, p + 1)))
         IN IF r.ovf /\ oc THEN [panic |-> TRUE, p |-> p, zone |-> zone]
            ELSE ParseZone(value, p + 1, r.v, oc)
    ELSE [panic |-> FALSE, p |-> p, zone |-> zone]

\* the index of a letter in LATBAND-like alphabets that skip I and O
SkipIO(c, first) ==
    B(c) - B(first) - ternary(B(c) > B("H"), 1, 0) - ternary(B(c) > B("N"), 1, 0)

\* A variant of the band letter test that lets the letter I through.
BandIndexWithI(utmp, c) ==
    IF utmp
    THEN IF Between(c, "C", "X") /\ c # "O" THEN SkipIO(c, "C") ELSE -1
    ELSE IF c = "A" THEN 0
         ELSE IF c = "B" THEN 1
         ELSE IF c = "Y" THEN 2
         ELSE IF c = "Z" THEN 3
         ELSE -1

BandIndex(utmp, c) ==
    IF utmp
    THEN IF Between(c, "C", "X") /\ c # "I" /\ c # "O" THEN SkipIO(c, "C") ELSE -1
    ELSE IF c = "A" THEN 0
         ELSE IF c = "B" THEN 1
         ELSE IF c = "Y" THEN 2
         ELSE IF c = "Z" THEN 3
         ELSE -1

ColIndex(utmp, zonem, band_idx, c) ==
    IF utmp
    THEN CASE TruncRem(zonem, 3) = 0 ->
                IF Between(c, "A", "H") THEN B(c) - B("A") ELSE -1
           [] TruncRem(zonem, 3) = 1 ->
                IF Between(c, "J", "R") /\ c # "O"
                THEN IF B(c) < B("O") THEN B(c) - B("J") ELSE B(c) - B("J") - 1
                ELSE -1
           [] OTHER ->
                IF Between(c, "S", "Z") THEN B(c) - B("S") ELSE -1
    ELSE CASE band_idx = 0 ->
                IF Between(c, "J", "Z") /\ ~Between(c, "M", "O") /\ c # "V" /\ c # "W"
                THEN B(c) - B("J") - ternary(B(c) > B("L"), 3, 0) - ternary(B(c) > B("U"), 2, 0)
                ELSE -1
           [] band_idx = 1 ->
                IF Between(c, "A", "R") /\ c # "D" /\ c # "E" /\ c # "I" /\ ~Between(c, "M", "O")
                THEN B(c) - B("A") - ternary(B(c) > B("C"), 2, 0) - ternary(B(c) > B("H"), 1, 0)
                     - ternary(B(c) > B("L"), 3, 0)
                ELSE -1
           [] band_idx = 2 ->
                IF Between(c, "R", "Z") /\ c # "V" /\ c # "W"
                THEN B(c) - B("R") - ternary(B(c) > B("U"), 2, 0)
                ELSE -1
           [] OTHER ->
                IF Between(c, "A", "J") /\ c # "D" /\ c # "E" /\ c # "I"
                THEN B(c) - B("A") - ternary(B(c) > B("C"), 2, 0) - ternary(B(c) > B("H"), 1, 0)
                ELSE -1

\* A variant of the row letter index that skips the letter I only, so that
\* the letters after O sit one place too high.
RowIndexSkipI(utmp, northp, c) ==
    IF utmp
    THEN IF Between(c, "A", "V") /\ c # "I" /\ c # "O"
         THEN B(c) - B("A") - ternary(B(c) > B("H"), 1, 0) ELSE -1
    ELSE IF northp
         THEN IF Between(c, "A", "P") /\ c # "I" /\ c # "O"
              THEN B(c) - B("A") - ternary(B(c) > B("H"), 1, 0) ELSE -1
         ELSE IF is_ascii_uppercase(c) /\ c # "I" /\ c # "O"
              THEN B(c) - B("A") - ternary(B(c) > B("H"), 1, 0) ELSE -1

RowIndex(utmp, northp, c) ==
    IF utmp
    THEN IF Between(c, "A", "V") /\ c # "I" /\ c # "O" THEN SkipIO(c, "A") ELSE -1
    ELSE IF northp
         THEN IF Between(c, "A", "P") /\ c # "I" /\ c # "O" THEN SkipIO(c, "A") ELSE -1
         ELSE IF is_ascii_uppercase(c) /\ c # "I" /\ c # "O" THEN SkipIO(c, "A") ELSE -1

RECURSIVE ParseDigits(_, _, _, _, _, _, _, _)
\* the digit loop: for i in 0..precision
ParseDigits(value, p, precision, i, unit, x, y, oc) ==
    IF i >= precision THEN [st |-> "ok", unit |-> unit, x |-> x, y |-> y]
    ELSE LET u == I32MulAdd(unit, BASE, 0)
             x_char == CharAt(value, p + i + 1)
             y_char == CharAt(value, p + i + precision + 1)
             xr == I32MulAdd(x, BASE, DigitOf(x_char))
             yr == I32MulAdd(y, BASE, DigitOf(y_char))
         IN IF u.ovf /\ oc THEN [st |-> "panic"]
            ELSE IF ~is_ascii_digit(x_char) \/ ~is_ascii_digit(y_char) THEN [st |-> "nondigit"]
            ELSE IF (xr.ovf \/ yr.ovf) /\ oc THEN [st |-> "panic"]
            ELSE ParseDigits(value, p, precision, i + 1, u.v, xr.v, yr.v, oc)

\* A variant of the grid-zone-only result that picks the central meridian in
\* every zone, 31V included.
GridZoneOnlyCentral(zone, utmp, northp, band_idx) ==
    LET shift_tiles == UTM_N_SHIFT \div TILE     \* deg = shift_tiles / QD
        x == IF utmp
             THEN TILE * 5
             ELSE (ternary(band_idx % 2 = 1, 1, -1) * ((2 * 4 * shift_tiles + QD) \div (2 * QD))
                   + UPSEASTING) * TILE
        y == IF utmp
             THEN ((8 * (2 * band_idx - 19) * shift_tiles + QD) \div (2 * QD)) * TILE
                  + ternary(northp, 0, UTM_N_SHIFT)
             ELSE UPSEASTING * TILE
    IN [status |-> "Ok", value |-> MgrsNew(UtmUpsNew(zone, northp, Metres(x), Metres(y)), -1)]

\* the grid-zone-only result: the central tile of the zone and band
GridZoneOnly(zone, utmp, northp, band_idx) ==
    LET shift_tiles == UTM_N_SHIFT \div TILE     \* deg = shift_tiles / QD
        x == IF utmp
             THEN TILE * ternary(zone = 31 /\ band_idx = 17, 4, 5)
             ELSE (ternary(band_idx % 2 = 1, 1, -1) * ((2 * 4 * shift_tiles + QD) \div (2 * QD))
                   + UPSEASTING) * TILE
        y == IF utmp
             THEN ((8 * (2 * band_idx - 19) * shift_tiles + QD) \div (2 * QD)) * TILE
                  + ternary(northp, 0, UTM_N_SHIFT)
             ELSE UPSEASTING * TILE
    IN [status |-> "Ok", value |-> MgrsNew(UtmUpsNew(zone, northp, Metres(x), Metres(y)), -1)]

\* from_str after the column and row letters: row resolution, digits, centre
ParseTail(value, p, zone, utmp, northp, band_idx0, col_idx0, row_idx0, oc) ==
    LET zonem == zone - 1
        row_s == IF utmp /\ zonem % 2 = 1
                 THEN TruncRem(row_idx0 + UTM_ROW_PERIOD - UTM_EVEN_ROW_SHIFT, UTM_ROW_PERIOD)
                 ELSE row_idx0
        row_u == utm_row(band_idx0 - 10, col_idx0, row_s)
        row_idx == IF utmp THEN ternary(northp, row_u, row_u + 100)
                   ELSE row_idx0 + ternary(northp, MINUPS_N_IND, MINUPS_S_IND)
        col_idx == IF utmp THEN col_idx0 + MINUTMCOL
                   ELSE col_idx0 + (IF band_idx0 % 2 = 1 THEN UPSEASTING
                                    ELSE IF northp THEN MINUPS_N_IND ELSE MINUPS_S_IND)
        len == Len(value)
        precision == (len - p) \div 2
        d == ParseDigits(value, p, precision, 0, 1, col_idx, row_idx, oc)
        u2 == I32MulAdd(d.unit, 2, 0)
        x2 == I32MulAdd(d.x, 2, 1)
        y2 == I32MulAdd(d.y, 2, 1)
    IN IF utmp /\ row_u = MAXUTM_S_ROW THEN ParseErr("block")
       ELSE IF d.st = "panic" THEN ParsePanic("overflow")
       ELSE IF d.st = "nondigit" THEN ParseErr("nondigit")
       ELSE IF (len - p) % 2 = 1
            THEN IF ~is_ascii_digit(CharAt(value, len)) THEN ParseErr("nondigit")
                 ELSE ParseErr("odd")
       ELSE IF precision > MAX_PRECISION THEN ParseErr("precision")
       ELSE IF (u2.ovf \/ x2.ovf \/ y2.ovf) /\ oc THEN ParsePanic("overflow")
       ELSE [status |-> "Ok",
             value |-> MgrsNew(UtmUpsNew(zone, northp, F64Quot(x2.v, u2.v), F64Quot(y2.v, u2.v)),
                               precision)]

\* A variant of from_str that reads its argument as written, without
\* to_ascii_uppercase.
from_str_cased(s, oc) ==
    LET value == s
        len == Len(value)
        z == ParseZone(value, 0, 0, oc)
        p == z.p
        zone == z.zone
        utmp == zone # UPS
        zonem == zone - 1
        band_idx == BandIndex(utmp, CharAt(value, p + 1))
        northp == band_idx >= ternary(utmp, 10, 2)
        col_idx == ColIndex(utmp, zonem, band_idx, CharAt(value, p + 2))
        row_idx == RowIndex(utmp, northp, CharAt(value, p + 3))
    IN IF ~is_ascii(value) THEN ParseErr("unicode")
       ELSE IF len >= 3 /\ SubSeq(value, 1, 3) = "INV" THEN ParseErr("INV")
       ELSE IF z.panic THEN ParsePanic("overflow")
       ELSE IF p > 0 /\ ~(zone >= MINUTMZONE /\ zone <= MAXUTMZONE) THEN ParseErr("zone")
       ELSE IF p > 2 THEN ParseErr("zonedigits")
       ELSE IF len - p < 1 THEN ParseErr("short")
       ELSE IF band_idx = -1 THEN ParseErr("band")
       ELSE IF p + 1 = len THEN GridZoneOnly(zone, utmp, northp, band_idx)
       ELSE IF len - (p + 1) < 2 THEN ParseErr("norow")
       ELSE IF col_idx = -1 THEN ParseErr("column")
       ELSE IF row_idx = -1 THEN ParseErr("row")
       ELSE ParseTail(value, p + 3, zone, utmp, northp, band_idx, col_idx, row_idx, oc)

\* Mgrs::from_str (oc: the build checks arithmetic overflow)
from_str(s, oc) ==
    LET value == to_ascii_uppercase(s)
        len == Len(value)
        z == ParseZone(value, 0, 0, oc)
        p == z.p
        zone == z.zone
        utmp == zone # UPS
        zonem == zone - 1
        band_idx == BandIndex(utmp, CharAt(value, p + 1))
        northp == band_idx >= ternary(utmp, 10, 2)
        col_idx == ColIndex(utmp, zonem, band_idx, CharAt(value, p + 2))
        row_idx == RowIndex(utmp, northp, CharAt(value, p + 3))
    IN IF ~is_ascii(value) THEN ParseErr("unicode")
       ELSE IF len >= 3 /\ SubSeq(value, 1, 3) = "INV" THEN ParseErr("INV")
       ELSE IF z.panic THEN ParsePanic("overflow")
       ELSE IF p > 0 /\ ~(zone >= MINUTMZONE /\ zone <= MAXUTMZONE) THEN ParseErr("zone")
       ELSE IF p > 2 THEN ParseErr("zonedigits")
       ELSE IF len - p < 1 THEN ParseErr("short")
       ELSE IF band_idx = -1 THEN ParseErr("band")
       ELSE IF p + 1 = len THEN GridZoneOnly(zone, utmp, northp, band_idx)
       ELSE IF len - (p + 1) < 2 THEN ParseErr("norow")
       ELSE IF col_idx = -1 THEN ParseErr("column")
       ELSE IF row_idx = -1 THEN ParseErr("row")
       ELSE ParseTail(value, p + 3, zone, utmp, northp, band_idx, col_idx, row_idx, oc)


---------------------------------------------------------------------------
(* Display for Mgrs *)

\* floor(a * (m + f/FP) / b) for a coordinate offset 0 <= m < TILE, small a, b > 0
ScaleFloor(a, m, f, b) == (a * m + (a * f) \div FP) \div b

\* lat = 0.9 * y_est for |y_est| < 1 (y_est in tiles), floored to micro-degrees
lat_equator(ye) == 9 * ye.m + (9 * ye.f) \div FP

\* lat_poleward = 0.901 * y_est + (y_est > 0 ? 0.135 : -0.135), floored to micro-degrees
lat_poleward(ye) ==
    LET t == ye.m \div TILE
        r == ye.m % TILE
    IN 901000 * t + ScaleFloor(901, r, ye.f, 100) + ternary(GtM(ye, 0), 135000, -135000)

\* 0.902 * 1.85e-6 * y^3 in micro-degrees for y = k/100 tiles, k >= 0: a lower
\* bound that is less than 3 below the value
CubicTermLo(k) ==
    LET pp == 902 * 185 * k
        qq == k * k
        p1 == pp \div MULT
        p0 == pp % MULT
        q1 == qq \div TILE
        q0 == qq % TILE
    IN p1 * q1 + (p1 * q0) \div TILE + (p0 * q1) \div MULT

\* lat_eastward = 0.902 * y_est * (1 - 1.85e-6 * y_est^2) at y_est = k/100 tiles,
\* in micro-degrees: bounds below and above
EastwardLo(k) == IF k >= 0 THEN 9020 * k - CubicTermLo(k) - 3
                 ELSE -(9020 * (-k) - CubicTermLo(-k))

EastwardHi(k) == IF k >= 0 THEN 9020 * k - CubicTermLo(k)
                 ELSE -(9020 * (-k) - CubicTermLo(-k) - 3)

\* The latitude band Display derives from the northing, or NEEDS_PROJECTION where
\* the poleward and eastward estimates disagree (Display then calls the inverse
\* Krueger series, which the model does not compute) or where the enclosure
\* of lat_eastward [EastwardLo(k) - 1, EastwardHi(k + 1) + 1], k = whole
\* kilometres of y_est, straddles a band boundary.
NEEDS_PROJECTION == 99

display_band(self, northp) ==
    LET ye == ternary(self.utm.northp, self.utm.northing, AddM(self.utm.northing, -UTM_N_SHIFT))
        k == ye.m \div 1000
        band_p == to_latitude_band(lat_poleward(ye))
        e_lo == to_latitude_band(EastwardLo(k) - 1)
        e_hi == to_latitude_band(EastwardHi(k + 1) + 1)
    IN IF ye.k = "nan"
       \* every comparison with NaN is false and NaN.floor() as i32 is 0: the
       \* two estimates give the same band, to_latitude_band(NaN)
       THEN to_latitude_band(0)
       ELSE IF GtM(ye, -TILE) /\ LtM(ye, TILE)
       THEN IF ye.m = 0 /\ ye.f = 0 THEN ternary(northp, 0, -1)
            ELSE to_latitude_band(lat_equator(ye))
       ELSE IF e_lo = e_hi /\ e_lo = band_p THEN band_p
       ELSE NEEDS_PROJECTION

RECURSIVE DigitString(_, _)
\* n written with exactly `width` decimal digits
DigitString(n, width) ==
    IF width = 0 THEN ""
    ELSE DigitString(n \div BASE, width - 1) \o CharAt(DIGITS, (n % BASE) + 1)

\* A variant of the offset digits that writes whole metres only, the decimals
\* of a metre as zeros.
OffsetDigitsWholeMetres(v, precision) ==
    SubSeq(DigitString(v.m % TILE, 5) \o "000000", 1, precision)

\* The e with 2^e < m * MULT + h <= 2^(e + 1), for m * MULT + h >= 1: the
\* binary exponent of an f64 just below that whole number of micrometres
RECURSIVE ProductExponentFrom(_, _, _, _, _)
\* hi * MULT + lo = 2^(e + 1)
ProductExponentFrom(m, h, e, hi, lo) ==
    IF hi < m \/ (hi = m /\ lo < h)
    THEN ProductExponentFrom(m, h, e + 1, 2 * hi + (2 * lo) \div MULT, (2 * lo) % MULT)
    ELSE e

ProductExponent(m, h) == ProductExponentFrom(m, h, -1, 0, 1)

\* (v * f64::from(MULT)).floor() as i64, as whole metres m and micrometres
\* u: the product of the f64 by 10^6 is formed on its binary digits and
\* rounded to an f64, which reaches the next whole number exactly when the
\* binary digits of the product after the point that an f64 keeps, and the
\* one after them, are all ones.  NaN as i64 is 0.
FloorMicrometres(v) ==
    LET \* the first n binary digits after the point are all ones
        Ones(g, n) ==
            \A k \in 1 .. 4 :
                LET nk == Min(20, Max(0, n - 20 * (k - 1)))
                IN g[k] \div 2 ^ (20 - nk) = 2 ^ nk - 1
        Whole(i, ix) == [m |-> i + ix \div MULT, u |-> ix % MULT]
        \* the product is i * 10^6 + u + G / 2^80
        Rounded(i, u, g) ==
            Whole(i, u + ternary(Ones(g, 53 - ProductExponent(i, u + 1)), 1, 0))
        Thousand(g) == Carry(0, <<1000 * g[1], 1000 * g[2], 1000 * g[3], 1000 * g[4]>>)
        Twice(i, c, p) == Rounded(i, 1000 * c + p.i, p.g)
        Once(i, p) == Twice(i, p.i, Thousand(p.g))
        Product(w) ==
            IF w.g = <<0, 0, 0, 0>> THEN [m |-> w.i, u |-> 0]
            ELSE Once(w.i, Thousand(w.g))
    IN IF v.k # "num" THEN [m |-> 0, u |-> 0] ELSE Product(ExactF64(v))

\* the `precision` leading digits of the offset within the tile: ix - m * xh
\* is an 11-digit number of micrometres, divided by 10^(MAX_PRECISION - precision);
\* ix = (easting * f64::from(MULT)).floor()
OffsetDigits(v, precision) ==
    LET Digits(ix) ==
            SubSeq(DigitString(ix.m % TILE, 5) \o DigitString(ix.u, 6), 1, precision)
    IN Digits(FloorMicrometres(v))

DisplayPanic(why) == [status |-> "Panic", why |-> why]

\* fmt of Display for Mgrs: the text, a panic, or NeedsProjection
Display(self) ==
    LET utmp == self.utm.zone # 0
        chk == mgrs_check_coords(utmp, self.utm.northp, self.utm.easting, self.utm.northing)
        northp == chk.northp
        zone == self.utm.zone - 1
        xh == FloorMicrometres(chk.x).m \div TILE
        yh == FloorMicrometres(chk.y).m \div TILE
        band_idx == display_band(self, northp)
        col_idx == xh - MINUTMCOL
        row_idx == utm_row(band_idx, col_idx, TruncRem(yh, UTM_ROW_PERIOD))
        eastp == xh >= UPSEASTING
        ups_band == ternary(northp, 2, 0) + ternary(eastp, 1, 0)
        head == IF utmp
                THEN CharAt(DIGITS, TruncDiv(self.utm.zone, BASE) + 1)
                     \o CharAt(DIGITS, TruncRem(self.utm.zone, BASE) + 1)
                     \o CharAt(LATBAND, 10 + band_idx + 1)
                     \o CharAt(UTMCOLS[TruncRem(zone, 3) + 1], col_idx + 1)
                     \o CharAt(UTMROW, TruncRem(yh + ternary(zone % 2 = 1, UTM_EVEN_ROW_SHIFT, 0),
                                                UTM_ROW_PERIOD) + 1)
                ELSE CharAt(UPSBAND, ups_band + 1)
                     \o CharAt(UPSCOLS[ups_band + 1],
                               xh - ternary(eastp, UPSEASTING,
                                            ternary(northp, MINUPS_N_IND, MINUPS_S_IND)) + 1)
                     \o CharAt(UPSROWS[ternary(northp, 1, 0) + 1],
                               yh - ternary(northp, MINUPS_N_IND, MINUPS_S_IND) + 1)
        digits == IF self.precision > 0
                  THEN OffsetDigits(chk.x, self.precision) \o OffsetDigits(chk.y, self.precision)
                  ELSE ""
    IN IF self.utm.easting = Unprojected \/ self.utm.northing = Unprojected
       THEN [status |-> "NeedsProjection"]
       ELSE IF chk.status = "Err" THEN DisplayPanic("expect")
       ELSE IF utmp /\ band_idx = NEEDS_PROJECTION THEN [status |-> "NeedsProjection"]
       ELSE IF utmp /\ row_idx # yh - ternary(northp, MINUTM_N_ROW, MAXUTM_S_ROW)
            THEN DisplayPanic("assert")
       ELSE IF self.precision > MAX_PRECISION THEN DisplayPanic("pow")
       ELSE [status |-> "Ok", text |-> head \o digits]


---------------------------------------------------------------------------
(* The library driven as a state machine: a build (overflow checks on or off),
   one value constructed through the public API, then set_precision and
   to_string calls on it. *)

\* largest precision argument passed to create / from_utmups / from_latlon / set_precision
MaxPrecisionArg == 12
\* longest digit half of the MGRS texts parsed
MaxDigitPairs == 12
\* grid steps per degree of the latitudes and longitudes given to from_latlon
ZoneSteps == 1

PrecisionArgs == (-2) .. MaxPrecisionArg

DigitPatterns == <<"00000000000000000", "99999999999999999",
                   "85664121000123456", "11315422000678901">>

\* k digits of easting pattern i followed by n digits of northing pattern j
DigitTail(i, j, k, n) == SubSeq(DigitPatterns[i], 1, k) \o SubSeq(DigitPatterns[j], 1, n)

EvenTails == { DigitTail(ij[1], ij[2], k, k) :
                 ij \in {<<1, 1>>, <<2, 2>>, <<3, 4>>}, k \in 0 .. MaxDigitPairs }

OddTails == { DigitTail(3, 4, k, k + 1) : k \in {0, 2, MaxDigitPairs} }

Texts(zones, bands, blocks, tails) ==
    { z \o b \o c \o t : z \in zones, b \in bands, c \in blocks, t \in tails }

MgrsTexts ==
    Texts({"18", "1", "01"}, {"T", "t", "N", "X"}, {"", "WL", "wl", "WF"},
          EvenTails \cup OddTails)
    \cup Texts({""}, {"A", "B", "Y", "Z", "a"}, {"", "UN", "AH", "ZP"},
               EvenTails \cup OddTails)
    \cup Texts({"0", "00", "61", "99", "018", "001", "100", "9999999999", "99999999999"},
               {"", "T", "A"}, {"", "WL", "UN"}, {"", "8511"})
    \cup {"31V", "31v", "31U", "32V", "18C", "18M", "1C", "60X", "18A", "T"}
    \cup {"", "INV", "inv", "INVALID", "Invalid", "INVé", "invé", "IN", "INé", "18", "18I", "18O", "18TIL", "18TWI", "18TW", "18TWW",
          "18TWL85X6", "18TWL 8566", "18é", "é", "18TWé", "18TWL85é6", "18 TWL", "+18TWL",
          "18TWL-1", "I", "AIN", "AUI", "AU"}

CreateZones == {-1, 0, 18, 61}

Eastings == {Num(585664, 242000), Num(585664, 240000), Metres(500000), Metres(99999), Metres(2000000), NaN}

Northings == {Num(4511315, 844000), Num(4511315, 840000), Metres(0), Metres(1), Metres(999999), Metres(2000000),
              Metres(9500000), Metres(10000000), NaN}

Latitudes == {-90 * DEG, -80 * DEG - 1, -80 * DEG, 0, 40748333, 84 * DEG - 1, 84 * DEG,
              90 * DEG, 90 * DEG + 1}

Longitudes == {-180 * DEG, -75 * DEG, -73985278, 3 * DEG, 9 * DEG, 180 * DEG - 1, 180 * DEG}

NoMgrs == [none |-> TRUE]
NoUtm == [none |-> TRUE]
Fresh == [op |-> "none"]

Init ==
    /\ overflow_checks \in BOOLEAN
    /\ mgrs = NoMgrs
    /\ utm = NoUtm
    /\ origin = Fresh
    /\ ret = [op |-> "none"]

IsFresh == origin = Fresh

Returned(op, r) == [op |-> op, status |-> r.status, result |-> r]

\* Mgrs::from_str / Mgrs::parse_str on a text
ParseStr ==
    /\ IsFresh
    /\ \E s \in MgrsTexts :
          LET Return(r) ==
                  /\ origin' = [op |-> "from_str", text |-> s]
                  /\ mgrs' = IF r.status = "Ok" THEN r.value ELSE NoMgrs
                  /\ ret' = Returned("from_str", r)
          IN Return(from_str(s, overflow_checks))
    /\ UNCHANGED <<overflow_checks, utm>>

\* Mgrs::create
CreateOver(zones, eastings, northings, precisions) ==
    /\ IsFresh
    /\ \E zone \in zones, northp \in BOOLEAN, easting \in eastings,
          northing \in northings, precision \in precisions :
          LET Return(r) ==
                  /\ origin' = [op |-> "create", zone |-> zone, northp |-> northp,
                                easting |-> easting, northing |-> northing,
                                precision |-> precision]
                  /\ mgrs' = IF r.status = "Ok" THEN r.value ELSE NoMgrs
                  /\ ret' = Returned("create", r)
          IN Return(MgrsCreate(zone, northp, easting, northing, precision))
    /\ UNCHANGED <<overflow_checks, utm>>

Create == CreateOver(CreateZones, Eastings, Northings, PrecisionArgs)

\* UtmUps::create
UtmCreateOver(zones, eastings, northings) ==
    /\ IsFresh
    /\ \E zone \in zones, northp \in BOOLEAN, easting \in eastings,
          northing \in northings :
          LET Return(r) ==
                  /\ origin' = [op |-> "utm_create", zone |-> zone, northp |-> northp,
                                easting |-> easting, northing |-> northing]
                  /\ utm' = IF r.status = "Ok" THEN r.value ELSE NoUtm
                  /\ ret' = Returned("utm_create", r)
          IN Return(UtmUpsCreate(zone, northp, easting, northing))
    /\ UNCHANGED <<overflow_checks, mgrs>>

UtmCreate == UtmCreateOver(CreateZones, Eastings, Northings)

\* LatLon::create followed by LatLon::to_utmups (UtmUps::from_latlon)
LatLonToUtmUps(lats, lons) ==
    /\ IsFresh
    /\ \E lat \in lats, lon \in lons :
          LET Return(r) ==
                  /\ origin' = [op |-> "latlon", lat |-> lat, lon |-> lon]
                  /\ utm' = IF r.status = "Ok" THEN UtmUpsFromLatLon(r.value) ELSE NoUtm
                  /\ ret' = Returned("latlon", r)
          IN Return(LatLonCreate(lat, lon))
    /\ UNCHANGED <<overflow_checks, mgrs>>

FromLatLon == LatLonToUtmUps(Latitudes, Longitudes)

\* UtmUps::to_mgrs / Mgrs::from_utmups on the UtmUps value held (LatLon::to_mgrs
\* and Mgrs::from_latlon when that value came from from_latlon)
ToMgrs ==
    /\ utm # NoUtm
    /\ mgrs = NoMgrs
    /\ \E precision \in PrecisionArgs :
          /\ mgrs' = MgrsFromUtmUps(utm, precision)
          /\ origin' = [op |-> "to_mgrs", from |-> origin.op, precision |-> precision]
    /\ ret' = [op |-> "to_mgrs", status |-> "Ok"]
    /\ UNCHANGED <<overflow_checks, utm>>

\* Mgrs::set_precision on the Mgrs value held
SetPrecision ==
    /\ mgrs # NoMgrs
    /\ \E precision \in {0, 1, 6, MAX_PRECISION, MaxPrecisionArg} :
          LET Return(r) ==
                  /\ mgrs' = r.value
                  /\ ret' = [op |-> "set_precision", status |-> r.status, arg |-> precision,
                             err |-> IF r.status = "Err" THEN <<r.err, r.p>> ELSE <<>>]
          IN Return(MgrsSetPrecision(mgrs, precision))
    /\ UNCHANGED <<overflow_checks, utm, origin>>

\* UtmUps::to_latlon on the UtmUps value held
ToLatLon ==
    /\ utm # NoUtm
    /\ LET Return(r) ==
               /\ r.status # "NeedsProjection"
               /\ ret' = Returned("to_latlon", r)
       IN Return(UtmUpsToLatLon(utm))
    /\ UNCHANGED <<overflow_checks, mgrs, utm, origin>>

\* to_string (Display::fmt) on the Mgrs value held
Format ==
    /\ mgrs # NoMgrs
    /\ LET Return(r) ==
               /\ r.status # "NeedsProjection"
               /\ ret' = Returned("fmt", r)
       IN Return(Display(mgrs))
    /\ UNCHANGED <<overflow_checks, mgrs, utm, origin>>

Next ==
    \/ ParseStr
    \/ Create
    \/ UtmCreate
    \/ FromLatLon
    \/ ToMgrs
    \/ SetPrecision
    \/ Format
    \/ ToLatLon

Spec == Init /\ [][Next]_vars

---------------------------------------------------------------------------
(* Zone selection over a grid of latitudes and longitudes: every second degree
   of latitude and every degree of longitude, divided by ZoneSteps, each
   with the value one micro-degree below it; this includes the UTM/UPS limits,
   the band limits and the edges of the Norway and Svalbard exceptions, and the
   first arguments LatLon::create rejects; latitudes 61 and 79 are added as
   interior points of bands 7 and 9. *)

ZoneLatitudes == { (2 * k * DEG) \div ZoneSteps - d :
                     k \in (-45 * ZoneSteps) .. (45 * ZoneSteps), d \in {0, 1} }
                 \cup { 61 * DEG, 79 * DEG }

ZoneLongitudes == { (k * DEG) \div ZoneSteps - d :
                      k \in (-180 * ZoneSteps) .. (180 * ZoneSteps), d \in {0, 1} }

ZoneNext == LatLonToUtmUps(ZoneLatitudes, ZoneLongitudes)

SpecZone == Init /\ [][ZoneNext]_vars

----------------------------------------------------------------------------
(* The constructors at the edges of the coordinate windows: for each of the
   four windows (UPS south, UPS north, UTM south, UTM north) the values just
   outside, on and just inside the tabulated limits and the limits widened by
   one tile, together with interior and non-finite values. *)

WindowEdges(lo, hi) ==
    { Num(lo - TILE - 1, FP - 1), Metres(lo - TILE), Num(lo - 1, FP - 1), Metres(lo),
      Num(hi - 1, FP - 1), Metres(hi), Num(hi, 1),
      Metres(hi + TILE), Num(hi + TILE, 1) }

WindowEastings ==
    UNION { WindowEdges(UTM_MIN_EASTING[i], UTM_MAX_EASTING[i]) : i \in 1..4 }
    \cup { Metres(500000), Metres(2000000), NaN, PosInf, NegInf }

WindowNorthings ==
    UNION { WindowEdges(UTM_MIN_NORTHING[i], UTM_MAX_NORTHING[i]) : i \in 1..4 }
    \cup { Metres(2000000), Metres(4500000), NaN, PosInf, NegInf }

WindowCreate == CreateOver({UPS, 18}, WindowEastings, WindowNorthings, {5})

WindowUtmCreate == UtmCreateOver({UPS, 18}, WindowEastings, WindowNorthings)

WindowNext ==
    \/ WindowCreate
    \/ WindowUtmCreate

SpecWindow == Init /\ [][WindowNext]_vars

---------------------------------------------------------------------------
(* Claims *)

\* the Norway and Svalbard exceptions as the zone layout defines them
InNorway(lat, lon) == lat >= 56 * DEG /\ lat < 64 * DEG /\ lon >= 3 * DEG /\ lon < 6 * DEG

InSvalbard(lat, lon) == lat >= 72 * DEG /\ lat < 84 * DEG /\ lon >= 0 /\ lon < 42 * DEG

\* C1: for every latitude in [-90,90] and longitude in [-180,180), the zone
\* UtmUps::from_latlon chooses is UPS (0) exactly when lat < -80 or lat >= 84;
\* otherwise, outside the Norway and Svalbard exceptions, it is
\* floor((lonInt + 186) / 6), lonInt the floored longitude.
C1_StandardZone ==
    (ret.op = "latlon" /\ ret.status = "Ok") =>
        LET lat == origin.lat
            lon == origin.lon
        IN /\ (utm.zone = UPS) <=> (lat < -80 * DEG \/ lat >= 84 * DEG)
           /\ (utm.zone # UPS /\ ~InNorway(lat, lon) /\ ~InSvalbard(lat, lon))
                 => utm.zone = ((lon \div DEG) + 186) \div 6

\* C1 witness: latitude exactly -80 is given a UTM zone
C1_Witness ==
    /\ ret.op = "latlon" /\ ret.status = "Ok"
    /\ origin.lat = -80 * DEG /\ origin.lon = -75 * DEG
    /\ utm.zone = 18


RECURSIVE DigitRun(_, _)
\* the number of consecutive digits of s from position i (1-based) on
DigitRun(s, i) ==
    IF i <= Len(s) /\ is_ascii_digit(CharAt(s, i)) THEN 1 + DigitRun(s, i + 1) ELSE 0

RECURSIVE TrailingDigits(_)
\* the number of digits at the end of s
TrailingDigits(s) ==
    IF Len(s) > 0 /\ is_ascii_digit(CharAt(s, Len(s)))
    THEN 1 + TrailingDigits(SubSeq(s, 1, Len(s) - 1))
    ELSE 0

Parsed == ret.op = "from_str"

ParsedOk == ret.op = "from_str" /\ ret.status = "Ok"

\* C2: for every string s that from_str accepts, formatting the parsed value
\* with Display returns exactly s.
C2_Reparse ==
    ParsedOk =>
        LET d == Display(mgrs)
        IN d.status = "NeedsProjection" \/ (d.status = "Ok" /\ d.text = origin.text)

\* C3: from_str never panics: every input returns Ok or Err, and an odd digit
\* count or more than 11 digit pairs returns Err.
C3_ParseTotal ==
    Parsed =>
        /\ ret.status \in {"Ok", "Err"}
        /\ (TrailingDigits(origin.text) % 2 = 1
            /\ TrailingDigits(origin.text) < Len(origin.text)) => ret.status = "Err"

\* v is the centre of the tile of 10^(5-p) metres whose digits within the
\* 100 km square are digs: its offset, written in micrometres with 11 digits,
\* is digs followed by 5 and zeros (at p = 11 the 5 is the half micrometre)
IsCentre(v, digs, p) ==
    /\ IsNum(v)
    /\ DigitString(v.m % TILE, 5) \o DigitString(v.f \div 2, 6)
          = SubSeq(digs \o "500000000000", 1, MAX_PRECISION)
    /\ v.f % 2 = ternary(p = MAX_PRECISION, 1, 0)

\* C4: an accepted string with 2p trailing digits, 0 <= p <= 11, parses to
\* precision p and the exact centre of the precision tile; strings with
\* p > 11 are rejected.
C4_ParsedCentre ==
    LET s == origin.text
        n == TrailingDigits(s)
        p == n \div 2
    IN /\ (ParsedOk /\ mgrs.precision >= 0) =>
             /\ n = 2 * p /\ p <= MAX_PRECISION
             /\ mgrs.precision = p
             /\ IsCentre(mgrs.utm.easting, SubSeq(s, Len(s) - n + 1, Len(s) - p), p)
             /\ IsCentre(mgrs.utm.northing, SubSeq(s, Len(s) - p + 1, Len(s)), p)
       /\ (Parsed /\ n < Len(s) /\ p > MAX_PRECISION) => ret.status = "Err"

\* C5: Mgrs::create returns Err(InvalidPrecision) whenever the precision
\* argument is outside [1,11], for otherwise valid arguments.
C5_CreateChecksPrecision ==
    (/\ ret.op = "create"
     /\ ~(origin.precision >= 1 /\ origin.precision <= 11)
     /\ MgrsCreate(origin.zone, origin.northp, origin.easting, origin.northing, 1).status = "Ok")
    => (ret.status = "Err" /\ ret.result.err = "InvalidPrecision")

\* C6: every Mgrs value obtainable through the public API has precision in [-1,11].
C6_PrecisionRange ==
    mgrs # NoMgrs => (mgrs.precision >= -1 /\ mgrs.precision <= MAX_PRECISION)

\* C7: formatting a Mgrs accepted by create or built by to_mgrs / from_utmups /
\* from_latlon, with any precision argument, never panics.
C7_DisplayTotal ==
    (mgrs # NoMgrs /\ origin.op \in {"create", "to_mgrs"}) => Display(mgrs).status # "Panic"

\* C8: for precision p in [-1,11] the formatted string has exactly
\* (2 if UTM else 0) + 3 + 2p characters (p = -1: the grid zone designator only).
C8_Length ==
    (/\ ret.op = "fmt" /\ ret.status = "Ok"
     /\ mgrs.precision >= -1 /\ mgrs.precision <= MAX_PRECISION)
    => Len(ret.result.text) = ternary(mgrs.utm.zone # UPS, 2, 0) + 3 + 2 * mgrs.precision

\* the value of a run of at most two digits
SmallValue(d) ==
    IF Len(d) = 1 THEN DigitOf(d) ELSE BASE * DigitOf(CharAt(d, 1)) + DigitOf(CharAt(d, 2))

\* a run of digits all of which are 0
AllZeros(d) == \A i \in 1 .. Len(d) : CharAt(d, i) = "0"

\* C9 as claimed: no leading digits, or leading digits of value 0, parse as UPS
\* (the text is accepted exactly when it is accepted without the zeros, with
\* zone 0); one or two digits of value 1..60 select that zone; more than two
\* digits or a value above 60 is not accepted.
C9_ZeroMeansUps ==
    Parsed =>
        LET s == origin.text
            n == DigitRun(s, 1)
            d == SubSeq(s, 1, n)
        IN /\ (n = 0 /\ ret.status = "Ok") => mgrs.utm.zone = UPS
           /\ (n \in {1, 2} /\ AllZeros(d))
                 => /\ ret.status = from_str(SubSeq(s, n + 1, Len(s)), overflow_checks).status
                    /\ ret.status = "Ok" => mgrs.utm.zone = UPS
           /\ (n \in {1, 2} /\ ret.status = "Ok") => mgrs.utm.zone = SmallValue(d)
           /\ (n > 2 \/ (n \in {1, 2} /\ SmallValue(d) > MAXUTMZONE)) => ret.status # "Ok"

\* C9 (amended): a text with no leading digits parses as UPS (zone 0); one or
\* two leading digits of value 1..60 select that UTM zone; leading digits of
\* value 0 are rejected with the zone-range parse error; more than two leading
\* digits or a value above 60 never yields a Mgrs value.
C9_ZoneDigits ==
    Parsed =>
        LET s == origin.text
            n == DigitRun(s, 1)
            d == SubSeq(s, 1, n)
        IN /\ (n = 0 /\ ret.status = "Ok") => mgrs.utm.zone = UPS
           /\ (n > 0 /\ AllZeros(d)) => (ret.status = "Err" /\ ret.result.why = "zone")
           /\ (n \in {1, 2} /\ ret.status = "Ok")
                 => (mgrs.utm.zone = SmallValue(d) /\ mgrs.utm.zone >= 1
                     /\ mgrs.utm.zone <= MAXUTMZONE)
           /\ (n > 2 \/ (n \in {1, 2} /\ SmallValue(d) > MAXUTMZONE)) => ret.status # "Ok"

\* C9 witness: the text "0A" has been parsed and rejected
C9_Witness ==
    Parsed /\ origin.text = "0A" /\ ret.status = "Err" /\ ret.result.why = "zone"

\* v lies at the centre of its tile of 10^(5-p) metres, 0 <= p <= 11
AtTileCentre(v, p) ==
    /\ IsNum(v)
    /\ LET dg == DigitString(v.m % TILE, 5) \o DigitString(v.f \div 2, 6)
       IN SubSeq(dg, p + 1, MAX_PRECISION) = SubSeq("500000000000", 1, MAX_PRECISION - p)
    /\ v.f % 2 = ternary(p = MAX_PRECISION, 1, 0)

\* C10 as claimed: the easting/northing stored in every Mgrs value is the
\* centre of its precision-sized tile, whichever constructor produced it and
\* after any set_precision call (stated here for the constructors that take
\* coordinates; the parser's centre is C4).
C10_AlwaysCentre ==
    (/\ mgrs # NoMgrs /\ origin.op \in {"create", "to_mgrs"}
     /\ mgrs.precision >= 0 /\ mgrs.precision <= MAX_PRECISION
     /\ IsNum(mgrs.utm.easting) /\ IsNum(mgrs.utm.northing))
    => (AtTileCentre(mgrs.utm.easting, mgrs.precision)
        /\ AtTileCentre(mgrs.utm.northing, mgrs.precision))

\* C10 (amended): create, from_utmups, to_mgrs and from_latlon store the
\* easting/northing they are given unchanged, whatever the precision, and
\* set_precision changes the precision only: the Mgrs value held always carries
\* the coordinates its constructor stored.
C10_StoredAsGiven ==
    mgrs # NoMgrs =>
        /\ origin.op = "create" =>
              mgrs.utm = UtmUpsNew(origin.zone, origin.northp, origin.easting, origin.northing)
        /\ origin.op = "to_mgrs" => mgrs.utm = utm
        /\ origin.op = "from_str" =>
              mgrs.utm = from_str(origin.text, overflow_checks).value.utm

\* C10 witness: a value created off-centre at precision 6 has been given
\* another precision by set_precision
C10_Witness ==
    /\ mgrs # NoMgrs
    /\ origin.op = "create" /\ origin.precision = 6
    /\ origin.easting = Num(585664, 242000)
    /\ ret.op = "set_precision" /\ ret.status = "Ok"
    /\ mgrs.precision = MAX_PRECISION
    /\ ~AtTileCentre(mgrs.utm.easting, mgrs.precision)


\* ---------------------------------------------------------------------------
\* Zone validation of the constructors
\* ---------------------------------------------------------------------------

\* The outcome of the last constructor call is an InvalidZone error
IsInvalidZone == ret.status = "Err" /\ ret.result.err = "InvalidZone"

\* C11: UtmUps::create and Mgrs::create return Err(InvalidZone) for every zone
\* outside [0, 60], whatever the hemisphere, easting, northing and precision
\* are, and never return InvalidZone for a zone in [0, 60].
C11_InvalidZone ==
    ret.op \in {"create", "utm_create"} =>
        (IsInvalidZone <=> ~(origin.zone >= 0 /\ origin.zone <= 60))

\* C11 witness: UtmUps::create has rejected zone 61 given coordinates that are
\* valid for a UTM zone
C11_Witness ==
    /\ ret.op = "utm_create" /\ IsInvalidZone
    /\ origin.zone = 61 /\ origin.northp
    /\ origin.easting = Metres(500000) /\ origin.northing = Metres(2000000)


\* ---------------------------------------------------------------------------
\* The coordinate window of UtmUps::create
\* ---------------------------------------------------------------------------

\* The windows in kilometres, widened by one tile, as the documentation of the
\* limits states them
StatedWindow(zone, northp) ==
    IF zone = 0
    THEN IF northp THEN [e_lo |-> 1200, e_hi |-> 2800, n_lo |-> 1200, n_hi |-> 2800]
                   ELSE [e_lo |-> 700, e_hi |-> 3300, n_lo |-> 700, n_hi |-> 3300]
    ELSE IF northp THEN [e_lo |-> 0, e_hi |-> 1000, n_lo |-> -9100, n_hi |-> 9600]
                   ELSE [e_lo |-> 0, e_hi |-> 1000, n_lo |-> 900, n_hi |-> 19600]

\* lo km <= x <= hi km, both ends inclusive; no non-finite value lies in a window
InKm(x, lo, hi) ==
    /\ IsNum(x)
    /\ x.m >= lo * 1000
    /\ (x.m < hi * 1000 \/ (x.m = hi * 1000 /\ x.f = 0))

\* The outcome of UtmUps::create the window rule prescribes for the call
\* recorded in origin
WindowVerdict ==
    LET w == StatedWindow(origin.zone, origin.northp)
        e_in == InKm(origin.easting, w.e_lo, w.e_hi)
        n_in == InKm(origin.northing, w.n_lo, w.n_hi)
    IN IF e_in /\ n_in
       THEN ret.status = "Ok"
       ELSE /\ ret.status = "Err"
            /\ ret.result.err = "InvalidUtmCoords"
            /\ ret.result.axis = IF ~e_in THEN "Easting" ELSE "Northing"
            /\ ret.result.lo = IF ~e_in THEN w.e_lo ELSE w.n_lo
            /\ ret.result.hi = IF ~e_in THEN w.e_hi ELSE w.n_hi

\* C12: for a zone in [0, 60], UtmUps::create succeeds exactly when easting and
\* northing lie in the tabulated window widened by one 100 km tile on each
\* side, bounds inclusive, and otherwise returns an error naming the offending
\* axis (easting first) and the window in kilometres.
C12_Window ==
    (ret.op = "utm_create" /\ origin.zone >= 0 /\ origin.zone <= 60) => WindowVerdict

\* The same rule for the calls whose easting and northing are both numbers or
\* infinities
C12_WindowOfNumbers ==
    (/\ ret.op = "utm_create" /\ origin.zone >= 0 /\ origin.zone <= 60
     /\ origin.easting # NaN /\ origin.northing # NaN) => WindowVerdict


\* ---------------------------------------------------------------------------
\* The coordinate window of Mgrs::create against that of UtmUps::create
\* ---------------------------------------------------------------------------

\* Mgrs::create has been called with a zone in [0, 60]
MgrsCreateCalled == ret.op = "create" /\ origin.zone >= 0 /\ origin.zone <= 60

\* What UtmUps::create returns for the arguments of the recorded call
UtmVerdict == UtmUpsCreate(origin.zone, origin.northp, origin.easting, origin.northing)

\* Both coordinates of the recorded call lie in the tabulated window, not widened
InTabulatedWindow ==
    LET w == StatedWindow(origin.zone, origin.northp)
    IN /\ InKm(origin.easting, w.e_lo + 100, w.e_hi - 100)
       /\ InKm(origin.northing, w.n_lo + 100, w.n_hi - 100)

\* C13 (as stated): the validity check is shared, so Mgrs::create accepts a
\* coordinate exactly when UtmUps::create accepts it (the window with one tile
\* of slop); stated here for finite eastings and northings.
C13_SameVerdict ==
    (MgrsCreateCalled /\ IsNum(origin.easting) /\ IsNum(origin.northing)) =>
        (ret.status = "Ok" <=> UtmVerdict.status = "Ok")

\* C13 (amended): Mgrs::create applies the tabulated window without the slop.
\* Whatever Mgrs::create accepts UtmUps::create accepts too, and a finite
\* coordinate is accepted by Mgrs::create exactly when easting and northing lie
\* in the tabulated window, both ends inclusive; a coordinate in the one-tile
\* slop band is accepted by UtmUps::create and rejected with InvalidMgrs by
\* Mgrs::create.
C13_MgrsWithoutSlop ==
    MgrsCreateCalled =>
        /\ ret.status = "Ok" => UtmVerdict.status = "Ok"
        /\ (IsNum(origin.easting) /\ IsNum(origin.northing)) =>
              /\ ret.status = "Ok" <=> InTabulatedWindow
              /\ ret.status # "Ok" =>
                    (ret.status = "Err" /\ ret.result.err = "InvalidMgrs")

\* C13 witness: Mgrs::create has rejected an easting in the slop band (0 km,
\* zone 18 north) that UtmUps::create accepts
C13_Witness ==
    /\ MgrsCreateCalled /\ origin.zone = 18 /\ origin.northp
    /\ origin.easting = Metres(0) /\ origin.northing = Metres(4500000)
    /\ ret.status = "Err" /\ ret.result.err = "InvalidMgrs" /\ ret.result.why = "Easting"
    /\ UtmVerdict.status = "Ok"


\* ---------------------------------------------------------------------------
\* The Norway and Svalbard exceptions of standard_zone
\* ---------------------------------------------------------------------------

\* UtmUps::from_latlon has chosen a zone for a latitude in [lo, hi) degrees
ZonedIn(lo, hi) ==
    /\ ret.op = "latlon" /\ ret.status = "Ok"
    /\ origin.lat >= lo * DEG /\ origin.lat < hi * DEG

\* The floored longitude of the recorded call, in degrees
LonInt == origin.lon \div DEG

\* C14: for every latitude in band 7 (56 <= lat < 64) the zone is 32 for a
\* longitude in [3, 6) and stays 31 for a longitude in [0, 3); latitude 61,
\* longitude 7 resolves to zone 32.
C14_Norway ==
    ZonedIn(56, 64) =>
        /\ (LonInt >= 3 /\ LonInt < 6) => utm.zone = 32
        /\ (LonInt >= 0 /\ LonInt < 3) => utm.zone = 31
        /\ (origin.lat = 61 * DEG /\ origin.lon = 7 * DEG) => utm.zone = 32

\* C14 witness: latitude 61 at longitude 3 exactly, the first longitude the
\* exception moves into zone 32
C14_Witness ==
    /\ ZonedIn(56, 64) /\ origin.lat = 61 * DEG /\ origin.lon = 3 * DEG
    /\ utm.zone = 32

\* C15: for every latitude in band 9 within the UTM range (72 <= lat < 84) and
\* floored longitude in [0, 42) the zone is 2 * floor((lonInt + 183) / 12) + 1,
\* one of 31, 33, 35, 37; latitude 78, longitude 10 resolves to zone 33; for
\* any other longitude the band-9 zone is the plain 6-degree zone.
C15_Svalbard ==
    ZonedIn(72, 84) =>
        /\ (LonInt >= 0 /\ LonInt < 42) =>
              /\ utm.zone = 2 * ((LonInt + 183) \div 12) + 1
              /\ utm.zone \in {31, 33, 35, 37}
        /\ (origin.lat = 78 * DEG /\ origin.lon = 10 * DEG) => utm.zone = 33
        /\ ~(LonInt >= 0 /\ LonInt < 42) => utm.zone = (LonInt + 186) \div 6

\* C15 witness: latitude 79 just below longitude 21, where the plain zone
\* would be 34, is in zone 33
C15_Witness ==
    /\ ZonedIn(72, 84) /\ origin.lat = 79 * DEG /\ origin.lon = 21 * DEG - 1
    /\ utm.zone = 33


\* ---------------------------------------------------------------------------
\* to_latitude_band
\* ---------------------------------------------------------------------------

\* LatLon::create has accepted the latitude, so that it lies in [-90, 90]
LatitudeAccepted == ret.op = "latlon" /\ ret.status = "Ok"

\* C16: for every latitude in [-90, 90], to_latitude_band(lat) equals
\* clamp(floor((floor(lat) + 80) / 8) - 10, -10, 9) with true floor division,
\* so the result is always in [-10, 9]; the truncating division of the code
\* gives the same result on that domain.
C16_LatitudeBand ==
    LatitudeAccepted =>
        LET lat_int == origin.lat \div DEG
            band == to_latitude_band(origin.lat)
        IN /\ band = Max(-10, Min(9, ((lat_int + 80) \div 8) - 10))
           /\ band >= -10 /\ band <= 9

\* C16 witness: at latitude -86 the truncating and the floor division differ
\* (0 and -1) and the band is -10 either way
C16_Witness ==
    /\ LatitudeAccepted /\ origin.lat = -86 * DEG
    /\ TruncDiv((origin.lat \div DEG) + 80, 8) # ((origin.lat \div DEG) + 80) \div 8
    /\ to_latitude_band(origin.lat) = -10


\* ---------------------------------------------------------------------------
\* The latitudes UtmUps::from_latlon gives to UPS
\* ---------------------------------------------------------------------------

\* C17: a UtmUps produced by from_latlon is a UPS coordinate (zone 0) exactly
\* when the latitude is outside the range [-84, 84].
C17_UpsOutside84 ==
    LatitudeAccepted =>
        (utm.zone = UPS <=> (origin.lat < -84 * DEG \/ origin.lat > 84 * DEG))


\* ---------------------------------------------------------------------------
\* Mgrs::set_precision
\* ---------------------------------------------------------------------------

\* C18: Mgrs::set_precision(p) returns Ok and sets the precision to p exactly
\* when p is in [1, 11]; for any other p it returns Err(InvalidPrecision(p)) and
\* leaves the stored precision unchanged; in both cases zone, hemisphere,
\* easting and northing are unchanged.
C18_SetPrecision ==
    [][ ret'.op = "set_precision" =>
          LET p == ret'.arg
          IN /\ ret'.status = "Ok" <=> (p >= 1 /\ p <= 11)
             /\ ret'.status = "Ok" => mgrs'.precision = p
             /\ ret'.status # "Ok" =>
                   /\ ret'.status = "Err"
                   /\ ret'.err = <<"InvalidPrecision", p>>
                   /\ mgrs'.precision = mgrs.precision
             /\ mgrs'.utm = mgrs.utm ]_vars

\* C18 witness: set_precision(0) has been rejected on a value created at
\* precision 6 with an off-centre easting, and the value still has precision 6
C18_Witness ==
    /\ ret.op = "set_precision" /\ ret.status = "Err" /\ ret.arg = 0
    /\ ret.err = <<"InvalidPrecision", 0>>
    /\ origin.op = "create" /\ origin.precision = 6
    /\ mgrs = MgrsNew(UtmUpsNew(origin.zone, origin.northp, origin.easting, origin.northing), 6)
    /\ origin.easting = Num(585664, 242000)


\* ---------------------------------------------------------------------------
\* Letter case, non-ASCII characters and the INV prefix in from_str
\* ---------------------------------------------------------------------------

\* The text starts with the letters I, N, V in any letter case
StartsWithInv(s) == Len(s) >= 3 /\ to_ascii_uppercase(SubSeq(s, 1, 3)) = "INV"

\* The parse has been rejected with InvalidMgrs for the given reason
RejectedFor(why) ==
    ret.status = "Err" /\ ret.result.err = "InvalidMgrs" /\ ret.result.why = why

\* A string and its upper-cased form parse to the same result, and a string
\* with a non-ASCII character is rejected with InvalidMgrs
CaseBlindAsciiOnly ==
    /\ ret.result = from_str(to_ascii_uppercase(origin.text), overflow_checks)
    /\ ~is_ascii(origin.text) => (ret.status = "Err" /\ ret.result.err = "InvalidMgrs")

\* C19 (as stated): parsing is case-insensitive and ASCII-only, and any string
\* of length >= 3 whose first three characters are INV in any letter case is
\* rejected with InvalidMgrs naming the INV prefix.
C19_AnyInvPrefix ==
    Parsed =>
        /\ CaseBlindAsciiOnly
        /\ StartsWithInv(origin.text) => RejectedFor("INV")

\* C19 (amended): parsing is case-insensitive and ASCII-only; the non-ASCII
\* test comes first, so an ASCII string of length >= 3 that starts with INV in
\* any letter case is rejected with InvalidMgrs naming the INV prefix, and a
\* string with a non-ASCII character is rejected as such even when it starts
\* with INV.
C19_AsciiInvPrefix ==
    Parsed =>
        /\ CaseBlindAsciiOnly
        /\ ~is_ascii(origin.text) => RejectedFor("unicode")
        /\ (is_ascii(origin.text) /\ StartsWithInv(origin.text)) => RejectedFor("INV")

\* C19 witness: the lower-case text "inv" has been rejected for its INV prefix
C19_Witness ==
    /\ Parsed /\ origin.text = "inv" /\ RejectedFor("INV")
    /\ origin.text # to_ascii_uppercase(origin.text)


\* ---------------------------------------------------------------------------
\* The digits written by Display
\* ---------------------------------------------------------------------------

\* floor((x mod 100 km) / 10^(5-p) m) written with p digits, for a stored
\* coordinate x: whole metres for p <= 5, then decimals of a metre
TruncatedOffset(x, p) ==
    IF p <= 5
    THEN DigitString((x.m % TILE) \div (10 ^ (5 - p)), p)
    ELSE DigitString(x.m % TILE, 5) \o DigitString((x.f \div 2) \div (10 ^ (11 - p)), p - 5)

\* Display has written the value held, whose precision is in [1, 11]
FormattedWithDigits ==
    /\ ret.op = "fmt" /\ ret.status = "Ok"
    /\ mgrs.precision >= 1 /\ mgrs.precision <= 11

\* The last 2p characters of the text written
DigitsWritten ==
    LET t == ret.result.text
    IN SubSeq(t, Len(t) - 2 * mgrs.precision + 1, Len(t))

\* C20: for precision p in [1, 11], the p easting digits written by Display
\* are floor((easting mod 100 km) / 10^(5-p) m) zero-padded to p digits, and
\* likewise the northing digits: the offset within the tile is truncated, so
\* the tile written contains the stored coordinate.
C20_TruncatedDigits ==
    FormattedWithDigits =>
        DigitsWritten = TruncatedOffset(mgrs.utm.easting, mgrs.precision)
                        \o TruncatedOffset(mgrs.utm.northing, mgrs.precision)

\* A stored coordinate that lies exactly on the upper limit of its window, or
\* a southern northing exactly on the equator
OnUpperLimit ==
    LET ind == Ind(mgrs.utm.zone # UPS, mgrs.utm.northp) + 1
    IN \/ mgrs.utm.easting = Metres(MGRS_MAX_EASTING[ind] * TILE)
       \/ mgrs.utm.northing = Metres(MGRS_MAX_NORTHING[ind] * TILE)
       \/ mgrs.utm.zone # UPS /\ ~mgrs.utm.northp
          /\ mgrs.utm.northing = Metres(MAXUTM_S_ROW * TILE)

\* The coordinate one micrometre below x
MicrometreBelow(x) ==
    IF x.f >= 2 THEN [x EXCEPT !.f = @ - 2]
    ELSE IF x.m >= 1 THEN [x EXCEPT !.m = @ - 1, !.f = @ + FP - 2]
    ELSE x

\* The digits that truncation can give for a stored coordinate x: those of
\* its decimal value, or those of the micrometre below, which is where the
\* double nearest to a whole number of micrometres may lie
TruncatedOffsets(x, p) ==
    {TruncatedOffset(x, p), TruncatedOffset(MicrometreBelow(x), p)}

\* The same rule away from the upper limits: the digits written are those of
\* the truncated offset, up to the rounding of the stored double
C20_TruncatedBelowLimit ==
    (FormattedWithDigits /\ ~OnUpperLimit) =>
        \E de \in TruncatedOffsets(mgrs.utm.easting, mgrs.precision),
           dn \in TruncatedOffsets(mgrs.utm.northing, mgrs.precision) :
            DigitsWritten = de \o dn

\* A text of precision 6 read back and written at precision 11: the product
\* northing * 1e6 of Display lies below the whole micrometre of the centre,
\* the product easting * 1e6 does not
C20_DoubleBelowCentre ==
    /\ FormattedWithDigits /\ ~OnUpperLimit
    /\ origin.op = "from_str" /\ mgrs.precision = 11
    /\ mgrs.utm.northing = Num(8599999, 1900000)
    /\ DigitsWritten = "9999995000099999949999"


\* ---------------------------------------------------------------------------
\* The reference scenario: 18TWL856641113154
\* ---------------------------------------------------------------------------

\* The UTM coordinate of the scenario: zone 18 north, 585664.12 m, 4511315.42 m
ScenarioUtm == UtmUpsNew(18, TRUE, Num(585664, 240000), Num(4511315, 840000))

\* |x - y| <= tol, tol in half-micrometres, for coordinates less than a metre apart
Near(x, y, tol) ==
    /\ IsNum(x) /\ IsNum(y) /\ Abs(x.m - y.m) <= 1
    /\ Abs((x.m - y.m) * FP + (x.f - y.f)) <= tol

\* One centimetre in half-micrometres
Centimetre == FP \div 100

\* Display has written the scenario coordinate at precision 6 as the scenario text
ScenarioWritten ==
    (ret.op = "fmt" /\ mgrs = MgrsNew(ScenarioUtm, 6)) =>
        (ret.status = "Ok" /\ ret.result.text = "18TWL856641113154")

\* from_str has read the scenario text as zone 18, north, precision 6
ScenarioRead ==
    /\ ret.status = "Ok"
    /\ mgrs.utm.zone = 18 /\ mgrs.utm.northp /\ mgrs.precision = 6

\* C21 (as stated): formatting (18, north, 585664.12, 4511315.42) at precision
\* 6 gives exactly "18TWL856641113154", and parsing that string gives zone 18,
\* north, precision 6 and an easting and northing each within 1 cm of
\* 585664.12 m and 4511315.42 m.
C21_WithinCentimetre ==
    /\ ScenarioWritten
    /\ (Parsed /\ origin.text = "18TWL856641113154") =>
          /\ ScenarioRead
          /\ Near(mgrs.utm.easting, ScenarioUtm.easting, Centimetre)
          /\ Near(mgrs.utm.northing, ScenarioUtm.northing, Centimetre)

\* C21 (amended): the text is written as stated, and parsing it gives zone 18,
\* north, precision 6 and the centre of the 10 cm square the text names,
\* 585664.15 m and 4511315.45 m, which is 3 cm from the coordinate formatted
\* (at precision 6 never more than 5 cm on either axis).
C21_SquareCentre ==
    /\ ScenarioWritten
    /\ (Parsed /\ origin.text = "18TWL856641113154") =>
          /\ ScenarioRead
          /\ mgrs.utm.easting = Num(585664, 300000)
          /\ mgrs.utm.northing = Num(4511315, 900000)
          /\ Near(mgrs.utm.easting, ScenarioUtm.easting, 5 * Centimetre)
          /\ Near(mgrs.utm.northing, ScenarioUtm.northing, 5 * Centimetre)

\* C21 witness: the scenario text has been parsed to the centre of its square
C21_Witness ==
    /\ Parsed /\ origin.text = "18TWL856641113154" /\ ret.status = "Ok"
    /\ mgrs.utm.easting = Num(585664, 300000)
    /\ ~Near(mgrs.utm.easting, ScenarioUtm.easting, Centimetre)

\* The scenario coordinate has been written at precision 6
C21_Written ==
    /\ ret.op = "fmt" /\ mgrs = MgrsNew(ScenarioUtm, 6)
    /\ ret.status = "Ok" /\ ret.result.text = "18TWL856641113154"


\* ---------------------------------------------------------------------------
\* Grid-zone-only texts
\* ---------------------------------------------------------------------------

\* The text read, upper-cased
TextRead == to_ascii_uppercase(origin.text)

\* The text is up to two digits followed by one character that is not a digit
IsGridZoneText ==
    LET n == Len(TextRead)
    IN /\ n >= 1 /\ n <= 3
       /\ \A i \in 1 .. (n - 1) : is_ascii_digit(CharAt(TextRead, i))
       /\ ~is_ascii_digit(CharAt(TextRead, n))

\* The number its digits write (0 when there are none) and its letter
GridZoneNumber ==
    LET n == Len(TextRead)
    IN IF n = 1 THEN 0
       ELSE IF n = 2 THEN DigitOf(CharAt(TextRead, 1))
       ELSE 10 * DigitOf(CharAt(TextRead, 1)) + DigitOf(CharAt(TextRead, 2))

GridZoneLetter == CharAt(TextRead, Len(TextRead))

\* A UTM zone 1..60 with a latitude band letter, or no zone with a UPS band letter
IsUtmGridZone ==
    /\ IsGridZoneText /\ Len(TextRead) > 1
    /\ GridZoneNumber >= 1 /\ GridZoneNumber <= 60
    /\ IndexIn(LATBAND, GridZoneLetter) >= 0

IsUpsGridZone ==
    IsGridZoneText /\ Len(TextRead) = 1 /\ IndexIn(UPSBAND, GridZoneLetter) >= 0

\* floor(8 * (bandIndex - 9.5) * (100 / 90) + 0.5), as an exact quotient
CentralRow(bandIndex) == (800 * (2 * bandIndex - 19) + 90) \div 180

\* C22: a string of optional zone digits and a band letter parses to Ok with
\* precision -1 and the central tile of the zone and band: for UTM, easting
\* 500000 m (400000 m for 31V) and northing
\* floor(8 * (bandIndex - 9.5) * (100 / 90) + 0.5) * 100 km, plus 10000 km for
\* the southern bands; for UPS, northing 2000 km and easting 2400 km for bands
\* B and Z, 1600 km for bands A and Y.
C22_GridZoneOnly ==
    Parsed =>
        /\ IsUtmGridZone =>
              LET b == IndexIn(LATBAND, GridZoneLetter)
              IN /\ ret.status = "Ok" /\ mgrs.precision = -1
                 /\ mgrs.utm.zone = GridZoneNumber
                 /\ mgrs.utm.easting =
                       Metres(IF GridZoneNumber = 31 /\ GridZoneLetter = "V"
                              THEN 400000 ELSE 500000)
                 /\ mgrs.utm.northing =
                       Metres(CentralRow(b) * 100000 + (IF b < 10 THEN 10000000 ELSE 0))
        /\ IsUpsGridZone =>
              /\ ret.status = "Ok" /\ mgrs.precision = -1
              /\ mgrs.utm.zone = 0
              /\ mgrs.utm.northing = Metres(2000000)
              /\ mgrs.utm.easting =
                    Metres(IF GridZoneLetter \in {"B", "Z"} THEN 2400000 ELSE 1600000)

\* C22 witness: "31V" has been parsed to the tile west of the central meridian
C22_Witness ==
    /\ Parsed /\ origin.text = "31V" /\ IsUtmGridZone /\ ret.status = "Ok"
    /\ mgrs.precision = -1 /\ mgrs.utm.easting = Metres(400000)
    /\ mgrs.utm.northing = Metres(6700000)


\* ---------------------------------------------------------------------------
\* The band letter
\* ---------------------------------------------------------------------------

\* The number of digits the text starts with, and the character after them
ZoneDigits == DigitRun(TextRead, 1)

BandLetter == CharAt(TextRead, ZoneDigits + 1)

\* The number one or two leading digits write
ZoneWritten ==
    IF ZoneDigits = 1 THEN DigitOf(CharAt(TextRead, 1))
    ELSE 10 * DigitOf(CharAt(TextRead, 1)) + DigitOf(CharAt(TextRead, 2))

\* The text starts with a UTM zone 1..60 and a further character, or with a
\* character that is not a digit
HasUtmZone ==
    /\ ZoneDigits \in {1, 2} /\ Len(TextRead) > ZoneDigits
    /\ ZoneWritten >= 1 /\ ZoneWritten <= 60

HasNoZone == ZoneDigits = 0 /\ Len(TextRead) > 0

\* The letters the bands are written with
UtmBandLetters == CharSet("CDEFGHJKLMNPQRSTUVWX")

UtmNorthLetters == CharSet("NPQRSTUVWX")

\* C23: with a UTM zone the band letter must be one of the 20 letters C..X
\* without I and O, and the result is northern exactly for N..X; with no zone
\* the letter must be A, B, Y or Z, and the result is northern exactly for Y
\* and Z; any other band letter is a parse error.
C23_BandLetter ==
    Parsed =>
        /\ HasUtmZone =>
              /\ BandLetter \notin UtmBandLetters =>
                    (ret.status = "Err" /\ ret.result.err = "InvalidMgrs")
              /\ ret.status = "Ok" =>
                    /\ mgrs.utm.zone = ZoneWritten
                    /\ mgrs.utm.northp <=> BandLetter \in UtmNorthLetters
        /\ HasNoZone =>
              /\ BandLetter \notin {"A", "B", "Y", "Z"} =>
                    (ret.status = "Err" /\ ret.result.err = "InvalidMgrs")
              /\ ret.status = "Ok" =>
                    /\ mgrs.utm.zone = UPS
                    /\ mgrs.utm.northp <=> BandLetter \in {"Y", "Z"}

\* C23 witness: zone 18 with the letter I has been rejected for its band letter
C23_Witness ==
    /\ Parsed /\ origin.text = "18I" /\ HasUtmZone /\ BandLetter = "I"
    /\ RejectedFor("band")

\* Southern and northern results of both kinds have been parsed
C23_South == Parsed /\ ret.status = "Ok" /\ HasUtmZone /\ BandLetter = "M" /\ ~mgrs.utm.northp
C23_North == Parsed /\ ret.status = "Ok" /\ HasUtmZone /\ BandLetter = "N" /\ mgrs.utm.northp
C23_UpsSouth == Parsed /\ ret.status = "Ok" /\ HasNoZone /\ BandLetter = "B" /\ ~mgrs.utm.northp
C23_UpsNorth == Parsed /\ ret.status = "Ok" /\ HasNoZone /\ BandLetter = "Y" /\ mgrs.utm.northp


\* ---------------------------------------------------------------------------
\* The round trip of a text through geodetic coordinates
\* ---------------------------------------------------------------------------

\* The text without the digits it ends with
TextHead == SubSeq(TextRead, 1, Len(TextRead) - TrailingDigits(TextRead))

\* A well-formed text of precision 0..11: grid zone, column and row letters
\* that name a 100 km square, followed by 2p digits, p <= 11
WellFormedText ==
    /\ is_ascii(TextRead)
    /\ TrailingDigits(TextRead) % 2 = 0
    /\ TrailingDigits(TextRead) <= 2 * MAX_PRECISION
    /\ LET head == from_str(TextHead, overflow_checks)
       IN head.status = "Ok" /\ head.value.precision = 0

\* C24: for a well-formed MGRS string s of any precision 0..11,
\* Mgrs::from_latlon(parse(s).to_latlon(), precision of s).to_string() equals
\* s.  The first step of the round trip is stated here: parse(s) returns a
\* value, of the precision of s, for the round trip to go on from.
C24_RoundTripParses ==
    (Parsed /\ WellFormedText) =>
        /\ ret.status = "Ok"
        /\ mgrs.precision = TrailingDigits(TextRead) \div 2


\* The same first step for the precisions 0..7, whose digits fit the i32
\* arithmetic of from_str
C24_ParsesUpToSeven ==
    (Parsed /\ WellFormedText /\ TrailingDigits(TextRead) <= 14) =>
        /\ ret.status = "Ok"
        /\ mgrs.precision = TrailingDigits(TextRead) \div 2


\* ---------------------------------------------------------------------------
\* The geodetic round trip
\* ---------------------------------------------------------------------------

\* UtmUps::to_latlon has been applied to the value UtmUps::from_latlon made of
\* an accepted latitude and longitude
RoundTripped == ret.op = "to_latlon" /\ ret.status = "Ok" /\ origin.op = "latlon"

\* The latitude and longitude that came back
LatitudeBack == ret.result.value.latitude

LongitudeBack == ret.result.value.longitude

C25_EquatorBack ==
    /\ RoundTripped /\ origin.lat = 0 /\ origin.lon = -75 * DEG
    /\ LatitudeBack = 0 /\ LongitudeBack = -75 * DEG


\* ---------------------------------------------------------------------------
\* Non-finite eastings and northings
\* ---------------------------------------------------------------------------

\* C26: non-finite inputs are rejected: UtmUps::create and Mgrs::create each
\* return an error value when the easting or the northing is NaN or an
\* infinity (LatLon::create likewise for latitude and longitude, which the
\* model draws from the numbers only).
C26_NonFiniteRejected ==
    (/\ ret.op \in {"create", "utm_create"}
     /\ origin.zone >= 0 /\ origin.zone <= 60
     /\ (~IsNum(origin.easting) \/ ~IsNum(origin.northing))) => ret.status = "Err"

\* The same for the infinities alone
C26_InfinityRejected ==
    (/\ ret.op \in {"create", "utm_create"}
     /\ (origin.easting \in {PosInf, NegInf} \/ origin.northing \in {PosInf, NegInf}))
        => ret.status = "Err"

\* Mgrs::create has accepted a NaN northing
C26_MgrsNaN == ret.op = "create" /\ ret.status = "Ok" /\ origin.northing = NaN


\* ---------------------------------------------------------------------------
\* Range of the zone number
\* ---------------------------------------------------------------------------

\* The latitude and longitude of the recorded call lie in the closed ranges
\* [-90, 90] and [-180, 180]
InGeodeticRange ==
    /\ ret.op = "latlon"
    /\ origin.lat >= -90 * DEG /\ origin.lat <= 90 * DEG
    /\ origin.lon >= -180 * DEG /\ origin.lon <= 180 * DEG

\* C27: for every latitude in [-90, 90] and every longitude in [-180, 180]
\* (180 being folded to -180) the zone of standard_zone, which is the zone
\* of UtmUps::from_latlon, is in [0, 60], and it is in [1, 60] whenever the
\* latitude is in [-80, 84).
C27_ZoneRange ==
    InGeodeticRange =>
        LET zone == standard_zone(origin.lat, origin.lon, STANDARD)
        IN /\ zone >= MINZONE /\ zone <= MAXZONE
           /\ (origin.lat >= -80 * DEG /\ origin.lat < 84 * DEG)
                 => (zone >= MINUTMZONE /\ zone <= MAXUTMZONE)
           /\ ret.status = "Ok" => utm.zone = zone

\* C27 witness: just west of the antimeridian and just south of 84 degrees,
\* from_latlon gives the last UTM zone
C27_Witness ==
    /\ InGeodeticRange /\ ret.status = "Ok"
    /\ origin.lat = 84 * DEG - 1 /\ origin.lon = 180 * DEG - 1
    /\ utm.zone = MAXUTMZONE

\* Longitude 180 itself is folded into zone 1
C27_FoldedMeridian ==
    /\ InGeodeticRange /\ origin.lat = 0 /\ origin.lon = 180 * DEG
    /\ standard_zone(origin.lat, origin.lon, STANDARD) = 1


\* ---------------------------------------------------------------------------
\* utm_row over its whole domain
\* ---------------------------------------------------------------------------

\* One call of utm_row on a band index, a column index and a row letter index
UtmRowCall ==
    /\ IsFresh
    /\ \E band_idx \in -10 .. 9, col_idx \in 0 .. 7, row_idx \in 0 .. (UTM_ROW_PERIOD - 1) :
          /\ origin' = [op |-> "utm_row", band |-> band_idx, col |-> col_idx, row |-> row_idx]
          /\ ret' = [op |-> "utm_row", status |-> "Ok",
                     row |-> utm_row(band_idx, col_idx, row_idx)]
    /\ UNCHANGED <<overflow_checks, mgrs, utm>>

SpecRow == Init /\ [][UtmRowCall]_vars

\* The safe rows of the bands -10 .. 9, as tabulated
SafeMinRow == << -90, -80, -71, -63, -54, -45, -36, -27, -18, -9,
                 0, 8, 17, 26, 35, 44, 53, 62, 71, 80 >>
SafeMaxRow == << -81, -72, -63, -54, -45, -36, -27, -18, -9, -1,
                 8, 17, 26, 35, 44, 53, 62, 70, 79, 94 >>

InSafeRows(band, r) == r >= SafeMinRow[band + 11] /\ r <= SafeMaxRow[band + 11]

\* The four blocks a band boundary cuts: a row of the band's own hemisphere,
\* the southern bands and rows and the eastern columns folded onto the
\* northern and western ones
IsBoundaryBlock(band, col, r) ==
    LET b == IF band >= 0 THEN band ELSE -band - 1
        fr == IF r >= 0 THEN r ELSE -r - 1
        fc == IF col < 4 THEN col ELSE 7 - col
    IN /\ (r >= 0) <=> (band >= 0)
       /\ \/ (fr = 70 /\ b = 8 /\ fc >= 2)
          \/ (fr = 71 /\ b = 7 /\ fc <= 2)
          \/ (fr = 79 /\ b = 9 /\ fc >= 1)
          \/ (fr = 80 /\ b = 8 /\ fc <= 1)

\* The rows of a band and column that carry a given row letter
RowsOfLetter(band, col, letter) ==
    { r \in -90 .. 94 : /\ (r - letter) % UTM_ROW_PERIOD = 0
                        /\ (InSafeRows(band, r) \/ IsBoundaryBlock(band, col, r)) }

\* C28: for every band index in [-10, 9], column index in [0, 7] and row
\* letter index in [0, 19], utm_row returns either the sentinel 100 or a row
\* congruent to the row letter modulo 20 that lies in the band's tabulated
\* safe rows or is one of the four boundary blocks; at most one row of the
\* band and column carries the letter.
C28_UtmRow ==
    ret.op = "utm_row" =>
        LET rows == RowsOfLetter(origin.band, origin.col, origin.row)
        IN /\ ret.row = MAXUTM_S_ROW \/ ret.row \in rows
           /\ Cardinality(rows) <= 1

\* C28 witness: row letter index 10 in band 8 and column 2 is the boundary
\* block of row 70, below the band's safe rows 71 .. 79
C28_Witness ==
    /\ ret.op = "utm_row"
    /\ origin.band = 8 /\ origin.col = 2 /\ origin.row = 10
    /\ ret.row = 70

\* The sentinel is returned only when no row of the band carries the letter
C28_SentinelOnlyWhenEmpty ==
    (ret.op = "utm_row" /\ ret.row = MAXUTM_S_ROW)
        => RowsOfLetter(origin.band, origin.col, origin.row) = {}

\* The sentinel is returned for some block
C28_Sentinel == ret.op = "utm_row" /\ ret.row = MAXUTM_S_ROW


\* ---------------------------------------------------------------------------
\* The letters of the 100 km squares, written and read back
\* ---------------------------------------------------------------------------

\* The centres of the 100 km tiles lo .. hi
TileCentres(lo, hi) == { Metres(k * TILE + TILE \div 2) : k \in lo .. hi }

\* Mgrs::create on the centre of a tile of the zones 1 and 2, an odd and an
\* even zone: every column and every row of the UTM window, precision 0
CodecUtmCreate ==
    CreateOver(MINUTMZONE .. (MINUTMZONE + 1), TileCentres(MINUTMCOL, MAXUTMCOL - 1),
               TileCentres(MINUTM_N_ROW, MAXUTM_S_ROW - 1), {0})

\* Mgrs::create on the centre of a tile of any UTM zone, precision 0: every
\* column in row 45, and the rows 40 .. 59 (one full cycle of the row
\* letters) in column 5
CodecZoneCreate ==
    \/ CreateOver(MINUTMZONE .. MAXUTMZONE, TileCentres(MINUTMCOL, MAXUTMCOL - 1),
                  TileCentres(45, 45), {0})
    \/ CreateOver(MINUTMZONE .. MAXUTMZONE, TileCentres(UTMEASTING, UTMEASTING),
                  TileCentres(2 * UTM_ROW_PERIOD, 3 * UTM_ROW_PERIOD - 1), {0})

\* Mgrs::create on the centre of a UPS tile, precision 0
CodecUpsCreate ==
    CreateOver({UPS}, TileCentres(MINUPS_S_IND, MAXUPS_S_IND - 1),
               TileCentres(MINUPS_S_IND, MAXUPS_S_IND - 1), {0})

\* Mgrs::parse_str on the text to_string has just returned
Reparse ==
    /\ ret.op = "fmt" /\ ret.status = "Ok"
    /\ LET Return(r) ==
               /\ mgrs' = IF r.status = "Ok" THEN r.value ELSE NoMgrs
               /\ ret' = [op |-> "reparse", status |-> r.status, result |-> r,
                          text |-> ret.result.text]
       IN Return(from_str(ret.result.text, overflow_checks))
    /\ UNCHANGED <<overflow_checks, utm, origin>>

CodecNext == CodecUtmCreate \/ CodecZoneCreate \/ CodecUpsCreate \/ Format \/ Reparse

\* The squares are written and read back in the build with overflow checks
CodecInit == Init /\ overflow_checks

SpecCodec == CodecInit /\ [][CodecNext]_vars

\* The text of a tile created has been read back
TileReadBack == ret.op = "reparse" /\ origin.op = "create"

C29_UpsSouth == TileReadBack /\ origin.zone = UPS /\ ~origin.northp /\ ret.text = "AJA"
C29_UpsNorth == TileReadBack /\ origin.zone = UPS /\ origin.northp /\ ret.text = "ZJP"

\* In UTM the whole tile comes back, not only its row modulo 20
C29_SameTile ==
    (TileReadBack /\ origin.zone # UPS) =>
        /\ mgrs.utm.northp = origin.northp
        /\ mgrs.utm.northing = origin.northing
        /\ mgrs.utm.easting = origin.easting


\* ---------------------------------------------------------------------------
\* The hemisphere of a UTM coordinate in Display
\* ---------------------------------------------------------------------------

\* to_string has run on a UTM value with a finite easting and northing whose
\* northing tile lies in its own hemisphere's rows, [0, 95) north and
\* [10, 100) south
FormattedInOwnRows ==
    /\ ret.op = "fmt" /\ mgrs # NoMgrs
    /\ mgrs.utm.zone # UPS
    /\ IsNum(mgrs.utm.easting) /\ IsNum(mgrs.utm.northing)
    /\ TileFloor(mgrs.utm.easting) >= MINUTMCOL /\ TileFloor(mgrs.utm.easting) < MAXUTMCOL
    /\ IF mgrs.utm.northp
       THEN /\ TileFloor(mgrs.utm.northing) >= MINUTM_N_ROW
            /\ TileFloor(mgrs.utm.northing) < MAXUTM_N_ROW
       ELSE /\ TileFloor(mgrs.utm.northing) >= MINUTM_S_ROW
            /\ TileFloor(mgrs.utm.northing) < MAXUTM_S_ROW

\* The check_coords call of that to_string
CheckedByDisplay ==
    mgrs_check_coords(TRUE, mgrs.utm.northp, mgrs.utm.easting, mgrs.utm.northing)

\* C30: the check_coords used by Display leaves a UTM coordinate that is in
\* its own hemisphere's range untouched (same hemisphere, same northing), so
\* a northern point on or just north of the equator is formatted with band N.
C30_OwnHemisphereUntouched ==
    FormattedInOwnRows =>
        /\ CheckedByDisplay.status = "Ok"
        /\ CheckedByDisplay.northp = mgrs.utm.northp
        /\ CheckedByDisplay.y = mgrs.utm.northing
        /\ (mgrs.utm.northp /\ TileFloor(mgrs.utm.northing) = 0)
              => (ret.status = "Ok" /\ CharAt(ret.result.text, 3) = "N")

\* What holds instead: a southern coordinate in its rows is untouched, a
\* northern one is untouched from row 10 on and moved to the southern
\* numbering (northing + 10000 km) in the rows 0 .. 9
C30_NorthMovedBelowRowTen ==
    FormattedInOwnRows =>
        /\ CheckedByDisplay.status = "Ok"
        /\ IF mgrs.utm.northp /\ TileFloor(mgrs.utm.northing) < MINUTM_S_ROW
           THEN /\ ~CheckedByDisplay.northp
                /\ CheckedByDisplay.y = AddM(mgrs.utm.northing, UTM_N_SHIFT)
           ELSE /\ CheckedByDisplay.northp = mgrs.utm.northp
                /\ CheckedByDisplay.y = mgrs.utm.northing

\* to_string panics on a northern point on the equator
C30_EquatorPanics ==
    /\ FormattedInOwnRows /\ mgrs.utm.northp /\ mgrs.utm.northing = Metres(0)
    /\ ret.status = "Panic"

\* One metre north of the equator the text carries band N
C30_JustNorth ==
    /\ FormattedInOwnRows /\ mgrs.utm.northp /\ mgrs.utm.northing = Metres(1)
    /\ ret.status = "Ok" /\ CharAt(ret.result.text, 3) = "N"


=============================================================================
